---- MODULE Spec2Model ----
(***************************************************************************)
(* Citation parsing/formatting/validation, date normalisation and the      *)
(* temporal provision resolver of the Slovenian law server, modelled from  *)
(* the TypeScript sources.                                                 *)
(*                                                                         *)
(* Strings are sequences of one-character strings.  Characters outside     *)
(* ASCII are named (ch_c is U+010D, "c with caron"), so that the word      *)
(* "clen" with caron is <<ch_c, "l", "e", "n">>.  Regular expressions are  *)
(* syntax trees interpreted by a backtracking matcher that returns the     *)
(* first match in the priority order of the ECMAScript semantics.          *)
(***************************************************************************)
EXTENDS Integers, Sequences, FiniteSets, TLC

VARIABLES op, citation, format, dateArg, db, today, query, text, result, lookups,
          lastIndex, calls

vars == <<op, citation, format, dateArg, db, today, query, text, result, lookups,
          lastIndex, calls>>

\* The lastIndex of every module-level regular expression with the g flag,
\* as it is when the module has been loaded.
NoLastIndex ==
  [PARAGRAPH_ARTICLE |-> 0, ARTICLE_WITH_STATUTE |-> 0, ARTICLE_ONLY |-> 0,
   MODERN_PATTERN |-> 0, OLD_STYLE_PATTERN |-> 0,
   spremenjen |-> 0, razveljavljen |-> 0, crtan |-> 0, dodan |-> 0]

(***************************************************************************)
(* Characters                                                              *)
(***************************************************************************)
ch_c == "U+010D"
ch_C == "U+010C"
ch_s == "U+0161"
ch_S == "U+0160"
ch_z == "U+017E"
ch_Z == "U+017D"
nbsp == "U+00A0"
emdash == "U+2014"

\* UTF-16 code unit of every character the model uses.
Code ==
  "\t" :> 9 @@ "\n" :> 10 @@ " " :> 32 @@ "\"" :> 34 @@ "(" :> 40 @@ ")" :> 41 @@
  "," :> 44 @@ "-" :> 45 @@ "." :> 46 @@ "/" :> 47 @@ "0" :> 48 @@ "1" :> 49 @@
  "2" :> 50 @@ "3" :> 51 @@ "4" :> 52 @@ "5" :> 53 @@ "6" :> 54 @@ "7" :> 55 @@
  "8" :> 56 @@ "9" :> 57 @@ ":" :> 58 @@ "A" :> 65 @@ "B" :> 66 @@ "C" :> 67 @@
  "D" :> 68 @@ "E" :> 69 @@ "F" :> 70 @@ "G" :> 71 @@ "H" :> 72 @@ "I" :> 73 @@
  "J" :> 74 @@ "K" :> 75 @@ "L" :> 76 @@ "M" :> 77 @@ "N" :> 78 @@ "O" :> 79 @@
  "P" :> 80 @@ "Q" :> 81 @@ "R" :> 82 @@ "S" :> 83 @@ "T" :> 84 @@ "U" :> 85 @@
  "V" :> 86 @@ "W" :> 87 @@ "X" :> 88 @@ "Y" :> 89 @@ "Z" :> 90 @@ "_" :> 95 @@
  "a" :> 97 @@ "b" :> 98 @@ "c" :> 99 @@ "d" :> 100 @@ "e" :> 101 @@ "f" :> 102 @@
  "g" :> 103 @@ "h" :> 104 @@ "i" :> 105 @@ "j" :> 106 @@ "k" :> 107 @@ "l" :> 108 @@
  "m" :> 109 @@ "n" :> 110 @@ "o" :> 111 @@ "p" :> 112 @@ "q" :> 113 @@ "r" :> 114 @@
  "s" :> 115 @@ "t" :> 116 @@ "u" :> 117 @@ "v" :> 118 @@ "w" :> 119 @@ "x" :> 120 @@
  "y" :> 121 @@ "z" :> 122 @@ nbsp :> 160 @@ ch_C :> 268 @@ ch_c :> 269 @@ ch_S :> 352 @@
  ch_s :> 353 @@ ch_Z :> 381 @@ ch_z :> 382 @@ emdash :> 8212

Alphabet == DOMAIN Code

\* Characters of the alphabet whose code lies in lo..hi (a class range).
Range(lo, hi) == {c \in Alphabet : Code[lo] <= Code[c] /\ Code[c] <= Code[hi]}

\* The classes \d, [a-z], [A-Z] and \w.
Digit == {"0", "1", "2", "3", "4", "5", "6", "7", "8", "9"}
LowerLetter ==
  {"a", "b", "c", "d", "e", "f", "g", "h", "i", "j", "k", "l", "m", "n", "o", "p", "q", "r",
   "s", "t", "u", "v", "w", "x", "y", "z"}
UpperLetter ==
  {"A", "B", "C", "D", "E", "F", "G", "H", "I", "J", "K", "L", "M", "N", "O", "P", "Q", "R",
   "S", "T", "U", "V", "W", "X", "Y", "Z"}
WordChar == LowerLetter \cup UpperLetter \cup Digit \cup {"_"}
\* ECMAScript WhiteSpace and LineTerminator: the class \s and what trim() strips.
WhiteSpace == {" ", "\t", "\n", nbsp}

\* String.prototype.toUpperCase / toLowerCase, one character at a time.
UpperOf ==
  "a" :> "A" @@ "b" :> "B" @@ "c" :> "C" @@ "d" :> "D" @@ "e" :> "E" @@ "f" :> "F" @@
  "g" :> "G" @@ "h" :> "H" @@ "i" :> "I" @@ "j" :> "J" @@ "k" :> "K" @@ "l" :> "L" @@
  "m" :> "M" @@ "n" :> "N" @@ "o" :> "O" @@ "p" :> "P" @@ "q" :> "Q" @@ "r" :> "R" @@
  "s" :> "S" @@ "t" :> "T" @@ "u" :> "U" @@ "v" :> "V" @@ "w" :> "W" @@ "x" :> "X" @@
  "y" :> "Y" @@ "z" :> "Z" @@ ch_c :> ch_C @@ ch_s :> ch_S @@ ch_z :> ch_Z
LowerOf ==
  "A" :> "a" @@ "B" :> "b" @@ "C" :> "c" @@ "D" :> "d" @@ "E" :> "e" @@ "F" :> "f" @@
  "G" :> "g" @@ "H" :> "h" @@ "I" :> "i" @@ "J" :> "j" @@ "K" :> "k" @@ "L" :> "l" @@
  "M" :> "m" @@ "N" :> "n" @@ "O" :> "o" @@ "P" :> "p" @@ "Q" :> "q" @@ "R" :> "r" @@
  "S" :> "s" @@ "T" :> "t" @@ "U" :> "u" @@ "V" :> "v" @@ "W" :> "w" @@ "X" :> "x" @@
  "Y" :> "y" @@ "Z" :> "z" @@ ch_C :> ch_c @@ ch_S :> ch_s @@ ch_Z :> ch_z
toUpperChar(c) == IF c \in DOMAIN UpperOf THEN UpperOf[c] ELSE c
toLowerChar(c) == IF c \in DOMAIN LowerOf THEN LowerOf[c] ELSE c
toLowerCase(s) == [j \in 1..Len(s) |-> toLowerChar(s[j])]

\* Optional values: <<>> is undefined, <<v>> is the value v.
None == <<>>
Some(v) == <<v>>
IsSome(o) == Len(o) = 1
Get(o) == o[1]

\* String.prototype.trim.
RECURSIVE TrimStart(_)
TrimStart(s) == IF s # <<>> /\ Head(s) \in WhiteSpace THEN TrimStart(Tail(s)) ELSE s
RECURSIVE TrimEnd(_)
TrimEnd(s) == IF s # <<>> /\ s[Len(s)] \in WhiteSpace THEN TrimEnd(SubSeq(s, 1, Len(s) - 1)) ELSE s
trim(s) == TrimEnd(TrimStart(s))

\* A Number that holds a non-negative integer is modelled by the decimal digits
\* of its exact value, most significant first and without leading zeros (the
\* integers of the checker end at 2^31 - 1): 2019 is <<2, 0, 1, 9>>, and the
\* double nearest to 9007199254740993 is <<9, 0, 0, 7, ..., 9, 9, 2>>.
Infinity == <<-1>>
TwoTo53 == <<9, 0, 0, 7, 1, 9, 9, 2, 5, 4, 7, 4, 0, 9, 9, 2>>
TwoTo54 == <<1, 8, 0, 1, 4, 3, 9, 8, 5, 0, 9, 4, 8, 1, 9, 8, 4>>

\* The Number of a small integer of the model, and back (below 10^9).
RECURSIVE Num(_)
Num(i) == IF i < 10 THEN <<i>> ELSE Num(i \div 10) \o <<i % 10>>
RECURSIVE IntOf(_)
IntOf(n) == IF n = <<>> THEN 0 ELSE 10 * IntOf(SubSeq(n, 1, Len(n) - 1)) + n[Len(n)]

\* a < b, for two integers in digits.
Less(a, b) ==
  \/ Len(a) < Len(b)
  \/ /\ Len(a) = Len(b)
     /\ \E i \in 1..Len(a) : a[i] < b[i] /\ \A j \in 1..(i - 1) : a[j] = b[j]

\* a < k and a <= k for a Number a and a small integer k.
NumLess(a, k) == a # Infinity /\ Less(a, Num(k))
NumAtMost(a, k) == a # Infinity /\ ~Less(Num(k), a)

\* The digits of a numeral without its leading zeros, and without its
\* trailing zeros.
StripZeros(d) ==
  SubSeq(d, CHOOSE i \in 1..Len(d) : /\ d[i] # 0 \/ i = Len(d)
                                     /\ \A j \in 1..(i - 1) : d[j] = 0, Len(d))
StripTrailingZeros(d) ==
  SubSeq(d, 1, CHOOSE i \in 1..Len(d) : /\ d[i] # 0 \/ i = 1
                                        /\ \A j \in (i + 1)..Len(d) : d[j] = 0)

Odd(d) == d[Len(d)] % 2 = 1
Zeros(c) == [i \in 1..c |-> 0]

\* floor(d / 2): a digit takes ten from the digit before it when that is odd.
Halve(d) ==
  StripZeros([i \in 1..Len(d) |-> (10 * (IF i > 1 THEN d[i - 1] % 2 ELSE 0) + d[i]) \div 2])

\* 2 * d: a digit takes one from the digit after it when that is 5 or more.
TwiceDigits(x) ==
  [i \in 1..Len(x) |-> ((2 * x[i]) % 10) + (IF i < Len(x) /\ x[i + 1] >= 5 THEN 1 ELSE 0)]
Twice(d) == StripZeros(TwiceDigits(<<0>> \o d))

\* d + 1: the last digit that is not 9 goes up, the nines after it to 0.
IncrementAt(x, j) ==
  [i \in 1..Len(x) |-> IF i < j THEN x[i] ELSE IF i = j THEN x[i] + 1 ELSE 0]
IncrementDigits(x) ==
  IncrementAt(x, CHOOSE j \in 1..Len(x) : x[j] # 9 /\ \A i \in (j + 1)..Len(x) : x[i] = 9)
Increment(d) == StripZeros(IncrementDigits(<<0>> \o d))

\* d * 2^e and floor(d / 2^e), the exponent split in two halves; zero stays
\* zero.
RECURSIVE TimesTwoTo(_, _)
TimesTwoTo(d, e) ==
  IF e = 0 \/ d = <<0>> THEN d ELSE IF e = 1 THEN Twice(d)
  ELSE TimesTwoTo(TimesTwoTo(d, e \div 2), e - (e \div 2))
RECURSIVE Shifted(_, _)
Shifted(d, e) ==
  IF e = 0 \/ d = <<0>> THEN d ELSE IF e = 1 THEN Halve(d)
  ELSE Shifted(Shifted(d, e \div 2), e - (e \div 2))

\* The number of bits of d beyond 54: d / 2^e has 54 bits.  An integer of n
\* digits has more than 3.3219 * (n - 1) bits and at most 3.3220 * n + 1.
Has54Bits(m) == ~Less(m, TwoTo53) /\ Less(m, TwoTo54)
Exponent(d) ==
  CHOOSE e \in 0..((33220 * Len(d)) \div 10000) :
    e + 54 > (33219 * (Len(d) - 1)) \div 10000 /\ Has54Bits(Shifted(d, e))

\* The significand of 53 bits for the 54 leading bits m of an integer: to
\* the nearest, a tie to the even one; sticky says that a one follows m.
Significand(m, sticky) ==
  IF Odd(m) /\ (sticky \/ Odd(Halve(m))) THEN Increment(Halve(m)) ELSE Halve(m)

\* r * 2^e as a double: Infinity from 2^1024 on.
Scale(r, e) ==
  IF e > 971 \/ (r = TwoTo53 /\ e > 970) THEN Infinity ELSE TimesTwoTo(r, e)

\* The double nearest to the integer d: d itself below 2^53, and from there
\* its 53 leading bits, rounded, times the power of two of the rest.
RoundedAt(d, e, m) == Scale(Significand(m, TimesTwoTo(m, e) # d), e + 1)
RoundedFrom(d, e) == RoundedAt(d, e, Shifted(d, e))
ToDouble(d) == IF Less(d, TwoTo53) THEN d ELSE RoundedFrom(d, Exponent(d))

\* parseInt(digits, 10) of a string of decimal digits.
DigitsOf(s) == [i \in 1..Len(s) |-> Code[s[i]] - 48]
parseInt(s) == ToDouble(StripZeros(DigitsOf(s)))

DigitChar(n) == CHOOSE c \in Digit : Code[c] = 48 + n
DigitChars(d) == [i \in 1..Len(d) |-> DigitChar(d[i])]

\* Of the two numerals of k digits around v, the one Number::toString prints
\* when both read back as v: the nearer one, the even one when v is half way.
NearerOf(v, k, lo, hi) ==
  LET rest == SubSeq(v, k + 1, Len(v))
      half == rest # <<>> /\ rest[1] = 5 /\ \A i \in 2..Len(rest) : rest[i] = 0
  IN IF rest # <<>> /\ rest[1] >= 5 /\ (~half \/ v[k] % 2 = 1) THEN hi ELSE lo

\* The numeral with the fewest significant digits that reads back as the
\* double v, trying k digits and then more.
RECURSIVE Shortest(_, _)
ShortestOf(v, k, lo, hi, loReads, hiReads) ==
  IF loReads /\ hiReads THEN NearerOf(v, k, lo, hi)
  ELSE IF loReads THEN lo ELSE IF hiReads THEN hi ELSE Shortest(v, k + 1)
ShortestAround(v, k, lo, hi) == ShortestOf(v, k, lo, hi, ToDouble(lo) = v, ToDouble(hi) = v)
Shortest(v, k) ==
  ShortestAround(v, k, SubSeq(v, 1, k) \o Zeros(Len(v) - k),
                 Increment(SubSeq(v, 1, k)) \o Zeros(Len(v) - k))

\* d.ddde+x for a numeral of more than 21 digits.
Exponential(s, sig) ==
  <<DigitChar(sig[1])>> \o (IF Len(sig) > 1 THEN <<".">> \o DigitChars(Tail(sig)) ELSE <<>>)
    \o <<"e", "+">> \o DigitChars(Num(Len(s) - 1))
Printed(s) == IF Len(s) <= 21 THEN DigitChars(s) ELSE Exponential(s, StripTrailingZeros(s))

\* Number::toString of a Number: `${n}` in a template string.
NumberToString(n) ==
  IF n = Infinity THEN <<"I", "n", "f", "i", "n", "i", "t", "y">>
  ELSE IF Less(n, TwoTo53) THEN DigitChars(n)
  ELSE Printed(Shortest(n, 1))

(***************************************************************************)
(* Regular expressions                                                     *)
(***************************************************************************)
Inf == -1
Chr(c) == [k |-> "chr", c |-> c]
Set(cs) == [k |-> "set", cs |-> cs, neg |-> FALSE]
NotSet(cs) == [k |-> "set", cs |-> cs, neg |-> TRUE]
Cat(rs) == [k |-> "cat", rs |-> rs]
Alt(rs) == [k |-> "alt", rs |-> rs]
Rep(r, min, max) == [k |-> "rep", r |-> r, min |-> min, max |-> max]
Grp(n, r) == [k |-> "grp", n |-> n, r |-> r]
Lit(s) == [k |-> "lit", s |-> s]
Opt(r) == Rep(r, 0, 1)
Star(r) == Rep(r, 0, Inf)
Plus(r) == Rep(r, 1, Inf)
BOL == [k |-> "bol"]
EOL == [k |-> "eol"]
NotFollowedBy(r) == [k |-> "nla", r |-> r]
WordBoundary == [k |-> "wb"]

\* Canonicalize of the ignoreCase flag.
Canonicalize(c, ic) == IF ic THEN toUpperChar(c) ELSE c

CharMatches(re, c, ic) ==
  IF re.k = "chr" THEN Canonicalize(re.c, ic) = Canonicalize(c, ic)
  ELSE (\E m \in re.cs : Canonicalize(m, ic) = Canonicalize(c, ic)) # re.neg

Dec(n) == IF n > 0 THEN n - 1 ELSE n

\* A state of the matcher: the position reached and the captures made so far.
MatchState(pos, caps) == [pos |-> pos, caps |-> caps]

\* The concatenation of a sequence of sequences.
RECURSIVE Flatten(_)
Flatten(parts) ==
  IF Len(parts) = 0 THEN <<>>
  ELSE IF Len(parts) = 1 THEN parts[1]
  ELSE Flatten(SubSeq(parts, 1, Len(parts) \div 2))
         \o Flatten(SubSeq(parts, Len(parts) \div 2 + 1, Len(parts)))

\* The number of characters from position i of s that a greedy quantifier over
\* the single-character pattern r takes (at most max, Inf for no limit).
GreedyRun(r, s, i, max, ic) ==
  LET avail == Len(s) - i + 1
      limit == IF max = Inf \/ max > avail THEN avail ELSE max
  IN Cardinality({n \in 1..limit : \A j \in 1..n : CharMatches(r, s[i + j - 1], ic)})

\* Run(re, s, starts, ic): the backtracking matcher.  starts are the states the
\* matcher can be in before re, in the order in which backtracking tries them;
\* the result is the states it can be in after re, in that order, so that the
\* first state after the whole pattern is the match of the ECMAScript
\* semantics: a disjunction tries its alternatives from left to right, a greedy
\* quantifier tries one more iteration before it tries to stop, and an
\* iteration of a satisfied quantifier that consumed nothing is rejected.  A
\* concatenation is matched as its first half followed by its second half.
RECURSIVE Run(_, _, _, _)
Run(re, s, starts, ic) ==
  LET isWord(j) == j >= 1 /\ j <= Len(s) /\ s[j] \in WordChar
  IN CASE re.k \in {"chr", "set"} ->
            LET ok == SelectSeq(starts, LAMBDA st :
                                  st.pos <= Len(s) /\ CharMatches(re, s[st.pos], ic))
            IN [j \in 1..Len(ok) |-> MatchState(ok[j].pos + 1, ok[j].caps)]
       [] re.k = "lit" ->
            LET ok == SelectSeq(starts, LAMBDA st :
                                  /\ st.pos + Len(re.s) - 1 <= Len(s)
                                  /\ \A j \in 1..Len(re.s) :
                                       Canonicalize(re.s[j], ic) = Canonicalize(s[st.pos + j - 1], ic))
            IN [j \in 1..Len(ok) |-> MatchState(ok[j].pos + Len(re.s), ok[j].caps)]
       [] re.k = "cat" /\ Len(re.rs) = 0 -> starts
       [] re.k = "cat" /\ Len(re.rs) = 1 -> Run(re.rs[1], s, starts, ic)
       [] re.k = "cat" ->
            LET half == Len(re.rs) \div 2
                first == Run(Cat(SubSeq(re.rs, 1, half)), s, starts, ic)
            IN IF first = <<>> THEN <<>>
               ELSE Run(Cat(SubSeq(re.rs, half + 1, Len(re.rs))), s, first, ic)
       [] re.k = "alt" ->
            Flatten([n \in 1..(Len(starts) * Len(re.rs)) |->
                       Run(re.rs[((n - 1) % Len(re.rs)) + 1], s,
                           <<starts[((n - 1) \div Len(re.rs)) + 1]>>, ic)])
       [] re.k = "rep" /\ re.r.k \in {"chr", "set"} ->
            Flatten([j \in 1..Len(starts) |->
                       LET most == GreedyRun(re.r, s, starts[j].pos, re.max, ic)
                       IN IF most < re.min THEN <<>>
                          ELSE [n \in 1..(most - re.min + 1) |->
                                  MatchState(starts[j].pos + most - n + 1, starts[j].caps)]])
       [] re.k = "rep" ->
            Flatten([j \in 1..Len(starts) |->
                       LET once == IF re.max = 0 THEN <<>>
                                   ELSE SelectSeq(Run(re.r, s, <<starts[j]>>, ic), LAMBDA st :
                                                    st.pos > starts[j].pos \/ re.min > 0)
                           again == IF once = <<>> THEN <<>>
                                    ELSE Run(Rep(re.r, Dec(re.min), Dec(re.max)), s, once, ic)
                       IN again \o (IF re.min = 0 THEN <<starts[j]>> ELSE <<>>)])
       [] re.k = "grp" ->
            Flatten([j \in 1..Len(starts) |->
                       LET inner == Run(re.r, s, <<starts[j]>>, ic)
                       IN [m \in 1..Len(inner) |->
                             MatchState(inner[m].pos,
                                        [inner[m].caps EXCEPT ![re.n] =
                                           Some(SubSeq(s, starts[j].pos, inner[m].pos - 1))])]])
       [] re.k = "bol" -> SelectSeq(starts, LAMBDA st : st.pos = 1)
       [] re.k = "eol" -> SelectSeq(starts, LAMBDA st : st.pos = Len(s) + 1)
       [] re.k = "wb" -> SelectSeq(starts, LAMBDA st : isWord(st.pos - 1) # isWord(st.pos))
       [] re.k = "nla" -> SelectSeq(starts, LAMBDA st : Run(re.r, s, <<st>>, ic) = <<>>)

NoCaps(n) == [j \in 1..n |-> None]

\* A regular expression object: syntax tree, number of groups, ignoreCase flag.
RegExp(re, ngroups, ic) == [re |-> re, n |-> ngroups, ic |-> ic]

\* RegExp.prototype.exec from position `from` (String.prototype.match without
\* the g flag uses from = 1): the leftmost match, as its start index, the
\* position after it, its text and its captures; None when there is no match.
\* A pattern that starts with ^ (no m flag) can only match at the first position.
Anchored(rx) == rx.re.k = "cat" /\ rx.re.rs # <<>> /\ rx.re.rs[1].k = "bol"

exec(rx, s, from) ==
  LET last == IF Anchored(rx) THEN 1 ELSE Len(s) + 1
      tried == [j \in 1..(last - from + 1) |->
                  [index |-> from + j - 1,
                   states |-> Run(rx.re, s, <<MatchState(from + j - 1, NoCaps(rx.n))>>, rx.ic)]]
      found == SelectSeq(tried, LAMBDA t : t.states # <<>>)
  IN IF from > last \/ found = <<>> THEN None
     ELSE Some([index |-> found[1].index, end |-> found[1].states[1].pos,
                caps |-> found[1].states[1].caps,
                text |-> SubSeq(s, found[1].index, found[1].states[1].pos - 1)])

\* while ((match = rx.exec(s)) !== null) with the g flag, from lastIndex: every
\* match in turn, each search starting where the previous match ended.
RECURSIVE execAll(_, _, _)
execAll(rx, s, start) ==
  LET m == exec(rx, s, start)
  IN IF m = None THEN <<>> ELSE <<Get(m)>> \o execAll(rx, s, Get(m).end)

match(rx, s) == exec(rx, s, 1)
test(rx, s) == IsSome(match(rx, s))

(***************************************************************************)
(* Citation parser (src/citation/parser.ts)                                *)
(***************************************************************************)
\* Abbreviation -> document id, in the order of the object literal.
CODE_TO_PIS ==
  << <<<<"U", "R", "S">>, <<"u", "s", "t", "a", "v", "a", "-", "r", "s">>>>,
     <<<<"O", "Z">>, <<"o", "b", "l", "i", "g", "a", "c", "i", "j", "s", "k", "i", "-", "z", "a", "k", "o", "n", "i", "k">>>>,
     <<<<"S", "P", "Z">>, <<"s", "t", "v", "a", "r", "n", "o", "p", "r", "a", "v", "n", "i", "-", "z", "a", "k", "o", "n", "i", "k">>>>,
     <<<<"D", "Z">>, <<"d", "e", "d", "n", "i", "-", "z", "a", "k", "o", "n">>>>,
     <<<<"Z", "Z", "Z", "D", "R">>, <<"z", "a", "k", "o", "n", "-", "o", "-", "z", "a", "k", "o", "n", "s", "k", "i", "-", "z", "v", "e", "z", "i", "-", "i", "n", "-", "d", "r", "u", "z", "i", "n", "s", "k", "i", "h", "-", "r", "a", "z", "m", "e", "r", "j", "i", "h">>>>,
     <<<<"D", "Z", "-", "1">>, <<"d", "r", "u", "z", "i", "n", "s", "k", "i", "-", "z", "a", "k", "o", "n", "i", "k">>>>,
     <<<<"K", "Z", "-", "1">>, <<"k", "a", "z", "e", "n", "s", "k", "i", "-", "z", "a", "k", "o", "n", "i", "k">>>>,
     <<<<"Z", "K", "P">>, <<"z", "a", "k", "o", "n", "-", "o", "-", "k", "a", "z", "e", "n", "s", "k", "e", "m", "-", "p", "o", "s", "t", "o", "p", "k", "u">>>>,
     <<<<"Z", "P", "-", "1">>, <<"z", "a", "k", "o", "n", "-", "o", "-", "p", "r", "e", "k", "r", "s", "k", "i", "h">>>>,
     <<<<"Z", "P", "P">>, <<"z", "a", "k", "o", "n", "-", "o", "-", "p", "r", "a", "v", "d", "n", "e", "m", "-", "p", "o", "s", "t", "o", "p", "k", "u">>>>,
     <<<<"Z", "I", "Z">>, <<"z", "a", "k", "o", "n", "-", "o", "-", "i", "z", "v", "r", "s", "b", "i", "-", "i", "n", "-", "z", "a", "v", "a", "r", "o", "v", "a", "n", "j", "u">>>>,
     <<<<"Z", "U", "S", "-", "1">>, <<"z", "a", "k", "o", "n", "-", "o", "-", "u", "p", "r", "a", "v", "n", "e", "m", "-", "s", "p", "o", "r", "u">>>>,
     <<<<"Z", "U", "P">>, <<"z", "a", "k", "o", "n", "-", "o", "-", "s", "p", "l", "o", "s", "n", "e", "m", "-", "u", "p", "r", "a", "v", "n", "e", "m", "-", "p", "o", "s", "t", "o", "p", "k", "u">>>>,
     <<<<"Z", "G", "D", "-", "1">>, <<"z", "a", "k", "o", "n", "-", "o", "-", "g", "o", "s", "p", "o", "d", "a", "r", "s", "k", "i", "h", "-", "d", "r", "u", "z", "b", "a", "h">>>>,
     <<<<"Z", "F", "P", "P", "I", "P", "P">>, <<"z", "a", "k", "o", "n", "-", "o", "-", "f", "i", "n", "a", "n", "c", "n", "e", "m", "-", "p", "o", "s", "l", "o", "v", "a", "n", "j", "u", "-", "p", "o", "s", "t", "o", "p", "k", "i", "h", "-", "z", "a", "r", "a", "d", "i", "-", "i", "n", "s", "o", "l", "v", "e", "n", "t", "n", "o", "s", "t", "i", "-", "i", "n", "-", "p", "r", "i", "s", "i", "l", "n", "e", "m", "-", "p", "r", "e", "n", "e", "h", "a", "n", "j", "u">>>>,
     <<<<"Z", "D", "R", "-", "1">>, <<"z", "a", "k", "o", "n", "-", "o", "-", "d", "e", "l", "o", "v", "n", "i", "h", "-", "r", "a", "z", "m", "e", "r", "j", "i", "h">>>>,
     <<<<"Z", "U", "T", "D">>, <<"z", "a", "k", "o", "n", "-", "o", "-", "u", "r", "e", "j", "a", "n", "j", "u", "-", "t", "r", "g", "a", "-", "d", "e", "l", "a">>>>,
     <<<<"Z", "L", "S">>, <<"z", "a", "k", "o", "n", "-", "o", "-", "l", "o", "k", "a", "l", "n", "i", "-", "s", "a", "m", "o", "u", "p", "r", "a", "v", "i">>>>,
     <<<<"Z", "J", "U">>, <<"z", "a", "k", "o", "n", "-", "o", "-", "j", "a", "v", "n", "i", "h", "-", "u", "s", "l", "u", "z", "b", "e", "n", "s", "k", "i", "h">>>>,
     <<<<"Z", "D", "U", "-", "1">>, <<"z", "a", "k", "o", "n", "-", "o", "-", "d", "r", "z", "a", "v", "n", "i", "-", "u", "p", "r", "a", "v", "i">>>>,
     <<<<"Z", "V", "O", "P", "-", "2">>, <<"z", "a", "k", "o", "n", "-", "o", "-", "v", "a", "r", "s", "t", "v", "u", "-", "o", "s", "e", "b", "n", "i", "h", "-", "p", "o", "d", "a", "t", "k", "o", "v">>>>,
     <<<<"Z", "D", "a", "v", "P", "-", "2">>, <<"z", "a", "k", "o", "n", "-", "o", "-", "d", "a", "v", "c", "n", "e", "m", "-", "p", "o", "s", "t", "o", "p", "k", "u">>>>,
     <<<<"Z", "D", "D", "V", "-", "1">>, <<"z", "a", "k", "o", "n", "-", "o", "-", "d", "a", "v", "k", "u", "-", "n", "a", "-", "d", "o", "d", "a", "n", "o", "-", "v", "r", "e", "d", "n", "o", "s", "t">>>>,
     <<<<"Z", "D", "o", "h", "-", "2">>, <<"z", "a", "k", "o", "n", "-", "o", "-", "d", "o", "h", "o", "d", "n", "i", "n", "i">>>>,
     <<<<"Z", "D", "D", "P", "O", "-", "2">>, <<"z", "a", "k", "o", "n", "-", "o", "-", "d", "a", "v", "k", "u", "-", "o", "d", "-", "d", "o", "h", "o", "d", "k", "o", "v", "-", "p", "r", "a", "v", "n", "i", "h", "-", "o", "s", "e", "b">>>>,
     <<<<"Z", "V", "O", "-", "2">>, <<"z", "a", "k", "o", "n", "-", "o", "-", "v", "a", "r", "s", "t", "v", "u", "-", "o", "k", "o", "l", "j", "a">>>>,
     <<<<"Z", "G", "O", "-", "1">>, <<"z", "a", "k", "o", "n", "-", "o", "-", "g", "r", "a", "d", "i", "t", "v", "i", "-", "o", "b", "j", "e", "k", "t", "o", "v">>>>,
     <<<<"Z", "J", "N", "-", "3">>, <<"z", "a", "k", "o", "n", "-", "o", "-", "j", "a", "v", "n", "e", "m", "-", "n", "a", "r", "o", "c", "a", "n", "j", "u">>>>,
     <<<<"Z", "M", "e", "d">>, <<"z", "a", "k", "o", "n", "-", "o", "-", "m", "e", "d", "i", "j", "i", "h">>>>,
     <<<<"Z", "Z", "a", "v", "a", "r", "-", "1">>, <<"z", "a", "k", "o", "n", "-", "o", "-", "z", "a", "v", "a", "r", "o", "v", "a", "l", "n", "i", "s", "t", "v", "u">>>>,
     <<<<"Z", "B", "a", "n", "-", "3">>, <<"z", "a", "k", "o", "n", "-", "o", "-", "b", "a", "n", "c", "n", "i", "s", "t", "v", "u">>>>,
     <<<<"Z", "T", "F", "I", "-", "1">>, <<"z", "a", "k", "o", "n", "-", "o", "-", "t", "r", "g", "u", "-", "f", "i", "n", "a", "n", "c", "n", "i", "h", "-", "i", "n", "s", "t", "r", "u", "m", "e", "n", "t", "o", "v">>>> >>

Lookup(table, key) ==
  LET hits == SelectSeq(table, LAMBDA e : e[1] = key)
  IN IF hits = <<>> THEN None ELSE Some(hits[1][2])

D == Set(Digit)
WS == Set(WhiteSpace)
Community == Alt(<<Lit(<<"E", "U">>), Lit(<<"E", "S">>), Lit(<<"E", "G", "S">>)>>)

\* /^ECLI:SI:[A-Z]{2,5}:\d{4}:[\w.]+$/
ECLI_PATTERN ==
  RegExp(Cat(<<BOL, Lit(<<"E", "C", "L", "I", ":", "S", "I", ":">>), Rep(Set(UpperLetter), 2, 5), Chr(":"),
               Rep(D, 4, 4), Chr(":"), Plus(Set(WordChar \cup {"."})), EOL>>), 0, FALSE)

\* /^(?:Uradni\s+list|Ur\.\s*l\.)\s+RS,?\s+[\u0161s]t\.\s+(\d+\/\d{2}(?:-\d+)?)/i
URADNI_LIST_PATTERN ==
  RegExp(Cat(<<BOL,
               Alt(<<Cat(<<Lit(<<"U", "r", "a", "d", "n", "i">>), Plus(WS), Lit(<<"l", "i", "s", "t">>)>>),
                     Cat(<<Lit(<<"U", "r", ".">>), Star(WS), Lit(<<"l", ".">>)>>)>>),
               Plus(WS), Lit(<<"R", "S">>), Opt(Chr(",")), Plus(WS),
               Set({ch_s, "s"}), Lit(<<"t", ".">>), Plus(WS),
               Grp(1, Cat(<<Plus(D), Chr("/"), Rep(D, 2, 2),
                            Opt(Cat(<<Chr("-"), Plus(D)>>))>>))>>), 1, TRUE)

\* (?:\(?(EU|ES|EGS)\)?\s+)?(?:\u0161t\.\s*)?(\d{2,4})\/(\d+)
EuNumberTail ==
  <<Opt(Cat(<<Opt(Chr("(")), Grp(1, Community), Opt(Chr(")")), Plus(WS)>>)),
    Opt(Cat(<<Lit(<<ch_s, "t", ".">>), Star(WS)>>)),
    Grp(2, Rep(D, 2, 4)), Chr("/"), Grp(3, Plus(D))>>

\* /^[Dd]irektiva\s+(?:\(?(EU|ES|EGS)\)?\s+)?(?:\u0161t\.\s*)?(\d{2,4})\/(\d+)(?:\/(EU|ES|EGS))?/
EU_DIRECTIVE_PATTERN ==
  RegExp(Cat(<<BOL, Set({"D", "d"}), Lit(<<"i", "r", "e", "k", "t", "i", "v", "a">>), Plus(WS)>> \o EuNumberTail
               \o <<Opt(Cat(<<Chr("/"), Grp(4, Community)>>))>>), 4, FALSE)

\* /^[Uu]redba\s+(?:\(?(EU|ES|EGS)\)?\s+)?(?:\u0161t\.\s*)?(\d{2,4})\/(\d+)/
EU_REGULATION_PATTERN ==
  RegExp(Cat(<<BOL, Set({"U", "u"}), Lit(<<"r", "e", "d", "b", "a">>), Plus(WS)>> \o EuNumberTail), 3, FALSE)

\* Object.keys(CODE_TO_PIS).join('|')
CODE_NAMES == Alt([j \in 1..Len(CODE_TO_PIS) |-> Lit(CODE_TO_PIS[j][1])])

\* (\d+[a-\u017e]?) as group n
ArticleGroup(n) == Grp(n, Cat(<<Plus(D), Opt(Set(Range("a", ch_z)))>>))
\* (?:\u010dlen[a]?|\u010dl\.?)
ClenWord == Alt(<<Cat(<<Lit(<<ch_c, "l", "e", "n">>), Opt(Set({"a"}))>>), Cat(<<Lit(<<ch_c, "l">>), Opt(Chr("."))>>)>>)
\* (?:odstavek|odst\.)
OdstavekWord == Alt(<<Lit(<<"o", "d", "s", "t", "a", "v", "e", "k">>), Lit(<<"o", "d", "s", "t", ".">>)>>)

\* ^(?:(\d+)\.\s*(?:odstavek|odst\.)\s+)?(\d+[a-\u017e]?)\.?\s*(?:\u010dlen[a]?|\u010dl\.?)\s+(CODE_NAMES)$  with flag i
STATUTE_PATTERN ==
  RegExp(Cat(<<BOL,
               Opt(Cat(<<Grp(1, Plus(D)), Chr("."), Star(WS), OdstavekWord, Plus(WS)>>)),
               ArticleGroup(2), Opt(Chr(".")), Star(WS), ClenWord, Plus(WS),
               Grp(3, CODE_NAMES), EOL>>), 3, TRUE)

\* ^(CODE_NAMES),?\s+(\d+[a-\u017e]?)\.?\s*(?:\u010dlen[a]?|\u010dl\.?)(?:\s+(\d+)\.\s*(?:odstavek|odst\.))?$  with flag i
ALT_STATUTE_PATTERN ==
  RegExp(Cat(<<BOL, Grp(1, CODE_NAMES), Opt(Chr(",")), Plus(WS),
               ArticleGroup(2), Opt(Chr(".")), Star(WS), ClenWord,
               Opt(Cat(<<Plus(WS), Grp(3, Plus(D)), Chr("."), Star(WS), OdstavekWord>>)),
               EOL>>), 3, TRUE)

\* A ParsedCitation; optional fields are None when absent.
ParsedCitation(raw, type, id, article, paragraph, code, ecli, ul, valid, error) ==
  [raw |-> raw, type |-> type, document_id |-> id, article |-> article,
   paragraph |-> paragraph, code_abbreviation |-> code, ecli |-> ecli,
   uradni_list_ref |-> ul, valid |-> valid, error |-> error]

\* statMatch[1] || undefined
OrUndefined(cap) == IF IsSome(cap) /\ Get(cap) # <<>> THEN cap ELSE None

\* a || b on an optional string: a when it is a non-empty string, else b.
OrElse(a, b) == IF IsSome(a) /\ Get(a) # <<>> THEN Get(a) ELSE b

\* CODE_TO_PIS[code] || code.toLowerCase()
pisIdOf(code) == OrElse(Lookup(CODE_TO_PIS, code), toLowerCase(code))

StatuteCitation(raw, article, paragraph, code) ==
  ParsedCitation(raw, "statute", pisIdOf(code), Some(article), OrUndefined(paragraph),
                 Some(code), None, None, TRUE, None)

\* `<prefix>${parseInt(year, 10)}/${parseInt(number, 10)}`
EuId(prefix, m) ==
  prefix \o NumberToString(parseInt(Get(m.caps[2]))) \o <<"/">>
         \o NumberToString(parseInt(Get(m.caps[3])))

\* The chain of tests of parseCitation, given the outcome of each pattern.
parseMatched(cit, trimmed, ecliTest, ulMatch, dirMatch, regMatch, statMatch, altMatch) ==
     IF trimmed = <<>>
       THEN ParsedCitation(cit, "statute", <<>>, None, None, None, None, None, FALSE,
                           Some(<<"E", "m", "p", "t", "y", " ", "c", "i", "t", "a", "t", "i", "o", "n">>))
     ELSE IF ecliTest
       THEN ParsedCitation(cit, "case_law", trimmed, None, None, None, Some(trimmed), None,
                           TRUE, None)
     ELSE IF IsSome(ulMatch)
       THEN ParsedCitation(cit, "statute", <<"U", "L", "-">> \o Get(Get(ulMatch).caps[1]), None, None,
                           None, None, Some(Get(Get(ulMatch).caps[1])), TRUE, None)
     ELSE IF IsSome(dirMatch)
       THEN ParsedCitation(cit, "eu_directive", EuId(<<"d", "i", "r", "e", "c", "t", "i", "v", "e", ":">>, Get(dirMatch)), None,
                           None, None, None, None, TRUE, None)
     ELSE IF IsSome(regMatch)
       THEN ParsedCitation(cit, "eu_regulation", EuId(<<"r", "e", "g", "u", "l", "a", "t", "i", "o", "n", ":">>, Get(regMatch)), None,
                           None, None, None, None, TRUE, None)
     ELSE IF IsSome(statMatch)
       THEN StatuteCitation(cit, Get(Get(statMatch).caps[2]), Get(statMatch).caps[1],
                            Get(Get(statMatch).caps[3]))
     ELSE IF IsSome(altMatch)
       THEN StatuteCitation(cit, Get(Get(altMatch).caps[2]), Get(altMatch).caps[3],
                            Get(Get(altMatch).caps[1]))
     ELSE ParsedCitation(cit, "statute", <<>>, None, None, None, None, None, FALSE,
                         Some(<<"U", "n", "r", "e", "c", "o", "g", "n", "i", "z", "e", "d", " ", "c", "i", "t", "a", "t", "i", "o", "n", " ", "f", "o", "r", "m", "a", "t", ":", " ", "\"">> \o trimmed \o <<"\"">>))

\* The body of parseCitation, given the string the patterns are tested against.
parseTrimmed(cit, trimmed) ==
  parseMatched(cit, trimmed, test(ECLI_PATTERN, trimmed), match(URADNI_LIST_PATTERN, trimmed),
               match(EU_DIRECTIVE_PATTERN, trimmed), match(EU_REGULATION_PATTERN, trimmed),
               match(STATUTE_PATTERN, trimmed), match(ALT_STATUTE_PATTERN, trimmed))

\* A plausible slip: the patterns are tested against the untrimmed input.
parseCitationUntrimmed(cit) == parseTrimmed(cit, cit)

\* const trimmed = citation.trim(); ...
parseCitation(cit) == parseTrimmed(cit, trim(cit))

(***************************************************************************)
(* Citation formatter (src/citation/formatter.ts)                          *)
(***************************************************************************)
\* Abbreviation -> full statute name.
CODE_FULL_NAMES ==
  << <<<<"U", "R", "S">>, <<"U", "s", "t", "a", "v", "a", " ", "R", "e", "p", "u", "b", "l", "i", "k", "e", " ", "S", "l", "o", "v", "e", "n", "i", "j", "e">>>>,
     <<<<"O", "Z">>, <<"O", "b", "l", "i", "g", "a", "c", "i", "j", "s", "k", "i", " ", "z", "a", "k", "o", "n", "i", "k">>>>,
     <<<<"S", "P", "Z">>, <<"S", "t", "v", "a", "r", "n", "o", "p", "r", "a", "v", "n", "i", " ", "z", "a", "k", "o", "n", "i", "k">>>>,
     <<<<"D", "Z">>, <<"D", "e", "d", "n", "i", " ", "z", "a", "k", "o", "n">>>>,
     <<<<"Z", "Z", "Z", "D", "R">>, <<"Z", "a", "k", "o", "n", " ", "o", " ", "z", "a", "k", "o", "n", "s", "k", "i", " ", "z", "v", "e", "z", "i", " ", "i", "n", " ", "d", "r", "u", ch_z, "i", "n", "s", "k", "i", "h", " ", "r", "a", "z", "m", "e", "r", "j", "i", "h">>>>,
     <<<<"D", "Z", "-", "1">>, <<"D", "r", "u", ch_z, "i", "n", "s", "k", "i", " ", "z", "a", "k", "o", "n", "i", "k">>>>,
     <<<<"K", "Z", "-", "1">>, <<"K", "a", "z", "e", "n", "s", "k", "i", " ", "z", "a", "k", "o", "n", "i", "k">>>>,
     <<<<"Z", "K", "P">>, <<"Z", "a", "k", "o", "n", " ", "o", " ", "k", "a", "z", "e", "n", "s", "k", "e", "m", " ", "p", "o", "s", "t", "o", "p", "k", "u">>>>,
     <<<<"Z", "P", "-", "1">>, <<"Z", "a", "k", "o", "n", " ", "o", " ", "p", "r", "e", "k", "r", ch_s, "k", "i", "h">>>>,
     <<<<"Z", "P", "P">>, <<"Z", "a", "k", "o", "n", " ", "o", " ", "p", "r", "a", "v", "d", "n", "e", "m", " ", "p", "o", "s", "t", "o", "p", "k", "u">>>>,
     <<<<"Z", "I", "Z">>, <<"Z", "a", "k", "o", "n", " ", "o", " ", "i", "z", "v", "r", ch_s, "b", "i", " ", "i", "n", " ", "z", "a", "v", "a", "r", "o", "v", "a", "n", "j", "u">>>>,
     <<<<"Z", "U", "S", "-", "1">>, <<"Z", "a", "k", "o", "n", " ", "o", " ", "u", "p", "r", "a", "v", "n", "e", "m", " ", "s", "p", "o", "r", "u">>>>,
     <<<<"Z", "U", "P">>, <<"Z", "a", "k", "o", "n", " ", "o", " ", "s", "p", "l", "o", ch_s, "n", "e", "m", " ", "u", "p", "r", "a", "v", "n", "e", "m", " ", "p", "o", "s", "t", "o", "p", "k", "u">>>>,
     <<<<"Z", "G", "D", "-", "1">>, <<"Z", "a", "k", "o", "n", " ", "o", " ", "g", "o", "s", "p", "o", "d", "a", "r", "s", "k", "i", "h", " ", "d", "r", "u", ch_z, "b", "a", "h">>>>,
     <<<<"Z", "F", "P", "P", "I", "P", "P">>, <<"Z", "a", "k", "o", "n", " ", "o", " ", "f", "i", "n", "a", "n", ch_c, "n", "e", "m", " ", "p", "o", "s", "l", "o", "v", "a", "n", "j", "u", ",", " ", "p", "o", "s", "t", "o", "p", "k", "i", "h", " ", "z", "a", "r", "a", "d", "i", " ", "i", "n", "s", "o", "l", "v", "e", "n", "t", "n", "o", "s", "t", "i", " ", "i", "n", " ", "p", "r", "i", "s", "i", "l", "n", "e", "m", " ", "p", "r", "e", "n", "e", "h", "a", "n", "j", "u">>>>,
     <<<<"Z", "D", "R", "-", "1">>, <<"Z", "a", "k", "o", "n", " ", "o", " ", "d", "e", "l", "o", "v", "n", "i", "h", " ", "r", "a", "z", "m", "e", "r", "j", "i", "h">>>>,
     <<<<"Z", "U", "T", "D">>, <<"Z", "a", "k", "o", "n", " ", "o", " ", "u", "r", "e", "j", "a", "n", "j", "u", " ", "t", "r", "g", "a", " ", "d", "e", "l", "a">>>>,
     <<<<"Z", "L", "S">>, <<"Z", "a", "k", "o", "n", " ", "o", " ", "l", "o", "k", "a", "l", "n", "i", " ", "s", "a", "m", "o", "u", "p", "r", "a", "v", "i">>>>,
     <<<<"Z", "J", "U">>, <<"Z", "a", "k", "o", "n", " ", "o", " ", "j", "a", "v", "n", "i", "h", " ", "u", "s", "l", "u", ch_z, "b", "e", "n", "c", "i", "h">>>>,
     <<<<"Z", "D", "U", "-", "1">>, <<"Z", "a", "k", "o", "n", " ", "o", " ", "d", "r", ch_z, "a", "v", "n", "i", " ", "u", "p", "r", "a", "v", "i">>>>,
     <<<<"Z", "V", "O", "P", "-", "2">>, <<"Z", "a", "k", "o", "n", " ", "o", " ", "v", "a", "r", "s", "t", "v", "u", " ", "o", "s", "e", "b", "n", "i", "h", " ", "p", "o", "d", "a", "t", "k", "o", "v">>>>,
     <<<<"Z", "D", "a", "v", "P", "-", "2">>, <<"Z", "a", "k", "o", "n", " ", "o", " ", "d", "a", "v", ch_c, "n", "e", "m", " ", "p", "o", "s", "t", "o", "p", "k", "u">>>>,
     <<<<"Z", "D", "D", "V", "-", "1">>, <<"Z", "a", "k", "o", "n", " ", "o", " ", "d", "a", "v", "k", "u", " ", "n", "a", " ", "d", "o", "d", "a", "n", "o", " ", "v", "r", "e", "d", "n", "o", "s", "t">>>>,
     <<<<"Z", "D", "o", "h", "-", "2">>, <<"Z", "a", "k", "o", "n", " ", "o", " ", "d", "o", "h", "o", "d", "n", "i", "n", "i">>>>,
     <<<<"Z", "D", "D", "P", "O", "-", "2">>, <<"Z", "a", "k", "o", "n", " ", "o", " ", "d", "a", "v", "k", "u", " ", "o", "d", " ", "d", "o", "h", "o", "d", "k", "o", "v", " ", "p", "r", "a", "v", "n", "i", "h", " ", "o", "s", "e", "b">>>>,
     <<<<"Z", "V", "O", "-", "2">>, <<"Z", "a", "k", "o", "n", " ", "o", " ", "v", "a", "r", "s", "t", "v", "u", " ", "o", "k", "o", "l", "j", "a">>>>,
     <<<<"Z", "G", "O", "-", "1">>, <<"Z", "a", "k", "o", "n", " ", "o", " ", "g", "r", "a", "d", "i", "t", "v", "i", " ", "o", "b", "j", "e", "k", "t", "o", "v">>>>,
     <<<<"Z", "J", "N", "-", "3">>, <<"Z", "a", "k", "o", "n", " ", "o", " ", "j", "a", "v", "n", "e", "m", " ", "n", "a", "r", "o", ch_c, "a", "n", "j", "u">>>>,
     <<<<"Z", "M", "e", "d">>, <<"Z", "a", "k", "o", "n", " ", "o", " ", "m", "e", "d", "i", "j", "i", "h">>>>,
     <<<<"Z", "Z", "a", "v", "a", "r", "-", "1">>, <<"Z", "a", "k", "o", "n", " ", "o", " ", "z", "a", "v", "a", "r", "o", "v", "a", "l", "n", "i", ch_s, "t", "v", "u">>>>,
     <<<<"Z", "B", "a", "n", "-", "3">>, <<"Z", "a", "k", "o", "n", " ", "o", " ", "b", "a", "n", ch_c, "n", "i", ch_s, "t", "v", "u">>>>,
     <<<<"Z", "T", "F", "I", "-", "1">>, <<"Z", "a", "k", "o", "n", " ", "o", " ", "t", "r", "g", "u", " ", "f", "i", "n", "a", "n", ch_c, "n", "i", "h", " ", "i", "n", "s", "t", "r", "u", "m", "e", "n", "t", "o", "v">>>> >>

\* A plausible slip: the paragraph clause is left out of the rendering.
paragraphStrOmitted(parsed) == <<>>

\* parsed.paragraph ? `, ${parsed.paragraph}. odstavek` : ''
paragraphStrOf(parsed) ==
  IF IsSome(parsed.paragraph) /\ Get(parsed.paragraph) # <<>>
  THEN <<",", " ">> \o Get(parsed.paragraph) \o <<".", " ", "o", "d", "s", "t", "a", "v", "e", "k">>
  ELSE <<>>

\* CODE_FULL_NAMES[code] || code
fullNameOf(code) == OrElse(Lookup(CODE_FULL_NAMES, code), code)

formatStatute(parsed, cit, fmt) ==
  LET code == Get(parsed.code_abbreviation)
      article == IF IsSome(parsed.article) THEN Get(parsed.article) ELSE <<>>
      paragraphStr == paragraphStrOf(parsed)
  IN CASE fmt = "full" ->
            article \o <<".", " ", ch_c, "l", "e", "n", " ">> \o fullNameOf(code) \o <<" ", "(">> \o code \o <<")">> \o paragraphStr
       [] fmt = "short" -> article \o <<".", " ", ch_c, "l", "e", "n", " ">> \o code \o paragraphStr
       [] fmt = "pinpoint" -> article \o <<".", " ", ch_c, "l", "e", "n">> \o paragraphStr
       [] OTHER -> cit

\* A plausible slip: an unparsable citation is returned trimmed.
formatParsedTrimmed(parsed, cit, fmt) ==
  IF ~parsed.valid THEN trim(cit) ELSE parsed.raw

\* The body of formatCitation after const parsed = parseCitation(citation).
formatParsed(parsed, cit, fmt) ==
  LET truthy(o) == IsSome(o) /\ Get(o) # <<>>
  IN IF ~parsed.valid THEN cit
     ELSE IF parsed.type = "case_law" /\ truthy(parsed.ecli) THEN Get(parsed.ecli)
     ELSE IF parsed.type \in {"eu_directive", "eu_regulation"} THEN parsed.raw
     ELSE IF parsed.type = "statute" /\ truthy(parsed.code_abbreviation)
       THEN formatStatute(parsed, cit, fmt)
     ELSE cit

formatCitation(cit, fmt) == formatParsed(parseCitation(cit), cit, fmt)

CitationFormat == {"full", "short", "pinpoint"}

(***************************************************************************)
(* Citation validator (validateCitation)                                   *)
(***************************************************************************)
\* SELECT id, title, status FROM legal_documents WHERE id = ?
getDocument(store, id) ==
  LET rows == {d \in store.legal_documents : d.id = id}
  IN IF rows = {} THEN None ELSE Some(CHOOSE d \in rows : TRUE)

\* SELECT id FROM legal_provisions WHERE document_id = ? AND provision_ref = ?
getProvisionRow(store, id, ref) ==
  LET rows == {p \in store.legal_provisions : p.document_id = id /\ p.provision_ref = ref}
  IN IF rows = {} THEN None ELSE Some(CHOOSE p \in rows : TRUE)

repealedWarning(title) == <<"D", "o", "k", "u", "m", "e", "n", "t", " ", "\"">> \o title \o <<"\"", " ", "j", "e", " ", "p", "r", "e", "n", "e", "h", "a", "l", " ", "v", "e", "l", "j", "a", "t", "i", " ", "(", "r", "e", "p", "e", "a", "l", "e", "d", ")">>
amendedWarning(title) ==
  <<"D", "o", "k", "u", "m", "e", "n", "t", " ", "\"">> \o title \o <<"\"", " ", "j", "e", " ", "b", "i", "l", " ", "s", "p", "r", "e", "m", "e", "n", "j", "e", "n", " ", emdash, " ", "p", "r", "e", "v", "e", "r", "i", "t", "e", " ", "v", "e", "l", "j", "a", "v", "n", "o", " ", "b", "e", "s", "e", "d", "i", "l", "o">>

\* A plausible slip: the invalid result carries no warning.
invalidValidationSilent(parsed) ==
  [value |-> [citation |-> parsed, document_exists |-> FALSE, provision_exists |-> FALSE,
              status |-> None, document_title |-> None, warnings |-> <<>>],
   queries |-> <<>>]

\* if (!parsed.valid) return {...}: no query is made.
invalidValidation(parsed) ==
  [value |-> [citation |-> parsed, document_exists |-> FALSE, provision_exists |-> FALSE,
              status |-> None, document_title |-> None,
              warnings |-> <<IF IsSome(parsed.error) /\ Get(parsed.error) # <<>>
                             THEN Get(parsed.error)
                             ELSE <<"I", "n", "v", "a", "l", "i", "d", " ", "c", "i", "t", "a", "t", "i", "o", "n", " ", "f", "o", "r", "m", "a", "t">>>>],
   queries |-> <<>>]

\* A plausible slip: only a repealed document is warned about.
statusWarningsRepealedOnly(docRow) ==
  IF IsSome(docRow) /\ Get(docRow).status = "repealed"
  THEN <<repealedWarning(Get(docRow).title)>>
  ELSE <<>>

\* The warnings pushed for the document row that was found (or not).
statusWarnings(docRow) ==
  IF ~IsSome(docRow) THEN <<>>
  ELSE IF Get(docRow).status = "repealed" THEN <<repealedWarning(Get(docRow).title)>>
  ELSE IF Get(docRow).status = "amended" THEN <<amendedWarning(Get(docRow).title)>>
  ELSE <<>>

\* parsed.type === 'statute' && parsed.article
hasArticle(parsed) ==
  parsed.type = "statute" /\ IsSome(parsed.article) /\ Get(parsed.article) # <<>>

\* A plausible slip: the provision is never looked up.
checkProvisionMirror(store, parsed, documentExists) ==
  [exists |-> documentExists, queries |-> <<>>]

\* The provision check: whether the provision exists, and the query it made.
checkProvision(store, parsed, documentExists) ==
  IF hasArticle(parsed)
  THEN [exists |-> IsSome(getProvisionRow(store, parsed.document_id, Get(parsed.article))),
        queries |-> <<[table |-> "legal_provisions", id |-> parsed.document_id,
                       ref |-> Get(parsed.article)]>>]
  ELSE [exists |-> documentExists, queries |-> <<>>]

\* The ValidationResult, together with the store queries made to produce it.
validateParsed(store, parsed) ==
  LET docRow == getDocument(store, parsed.document_id)
      documentExists == IsSome(docRow)
      prov == checkProvision(store, parsed, documentExists)
  IN IF ~parsed.valid THEN invalidValidation(parsed)
     ELSE [value |-> [citation |-> parsed, document_exists |-> documentExists,
                      provision_exists |-> prov.exists,
                      status |-> IF documentExists THEN Some(Get(docRow).status) ELSE None,
                      document_title |-> IF documentExists THEN Some(Get(docRow).title) ELSE None,
                      warnings |-> statusWarnings(docRow)],
           queries |-> <<[table |-> "legal_documents", id |-> parsed.document_id,
                          ref |-> <<>>]>> \o prov.queries]

validateCitation(store, cit) == validateParsed(store, parseCitation(cit))

(***************************************************************************)
(* Citation inputs, stores and the specifications of the citation functions*)
(***************************************************************************)
\* Fragments from which the statute citations are assembled.
Pieces ==
  << <<"1", ".", " ", "o", "d", "s", "t", "a", "v", "e", "k", " ">>, <<"6", ".", " ", ch_c, "l", "e", "n">>, <<" ", "Z", "K", "P">>, <<"D", "Z", "-", "1", ",", " ">>, <<" ", "2", ".", " ", "o", "d", "s", "t", ".">> >>

\* Citations of the other kinds, statute citations in other spellings, and EU
\* citations whose number is no integer a double holds exactly.
OtherCitations ==
  { <<"E", "C", "L", "I", ":", "S", "I", ":", "V", "S", "R", "S", ":", "2", "0", "2", "0", ":", "1", "2", "3">>, <<"E", "C", "L", "I", ":", "S", "I", ":", "V", "S", "R", "S", ":", "2", "0", "2", "0", ":", "1", "2", "3", " ", "x">>, <<"e", "c", "l", "i", ":", "s", "i", ":", "v", "s", "r", "s", ":", "2", "0", "2", "0", ":", "1", "2", "3">>,
    <<"U", "r", "a", "d", "n", "i", " ", "l", "i", "s", "t", " ", "R", "S", ",", " ", ch_s, "t", ".", " ", "6", "3", "/", "1", "3">>, <<"U", "r", ".", " ", "l", ".", " ", "R", "S", " ", "s", "t", ".", " ", "6", "3", "/", "1", "3", "-", "1">>,
    <<"D", "i", "r", "e", "k", "t", "i", "v", "a", " ", "9", "5", "/", "4", "6", "/", "E", "S">>, <<"d", "i", "r", "e", "k", "t", "i", "v", "a", " ", "(", "E", "U", ")", " ", ch_s, "t", ".", " ", "2", "0", "1", "9", "/", "0", "7", "7", "0">>, <<"U", "r", "e", "d", "b", "a", " ", "(", "E", "U", ")", " ", "2", "0", "1", "6", "/", "6", "7", "9">>,
    <<"U", "r", "e", "d", "b", "a", " ", "2", "0", "1", "6", "/", "6", "7", "9", " ", "o", " ", "v", "a", "r", "s", "t", "v", "u", " ", "p", "o", "d", "a", "t", "k", "o", "v">>, <<"3", "a", ".", " ", ch_c, "l", "e", "n", "a", " ", "Z", "K", "P">>, <<"3", "A", " ", ch_C, "L", ".", " ", "z", "k", "p">>, <<"O", "Z", " ", "6", ch_c, "l", ".", " ", "2", ".", " ", "o", "d", "s", "t", "a", "v", "e", "k">>,
    <<ch_c, "l", ".", " ", "2", "8", "7", " ", "O", "Z">>, <<"6", ".", " ", ch_c, "l", "e", "n", " ", "Z", "K", "P", "-", "1">>, <<"6", ".", " ", ch_c, "l", "e", "n", " ", "Z", "k", "p">>, <<"z", "k", "p", " ", "6", ".", " ", ch_c, "l", "e", "n">>, <<"1", ".", " ", "o", "d", "s", "t", "a", "v", "e", "k", " ", "6", ".", " ", ch_c, "l", "e", "n", " ", "Z", "k", "p">>,
    <<"6", ".", " ", ch_c, "l", "e", "n", " ", "X", "Y", "Z">>, <<"X", "Y", "Z", ",", " ", "6", ".", " ", ch_c, "l", "e", "n">>, <<"\t">>,
    <<"D", "i", "r", "e", "k", "t", "i", "v", "a", " ", "2", "0", "1", "9", "/", "9", "0", "0", "7", "1", "9", "9", "2", "5", "4", "7", "4", "0", "9", "9", "3">>,
    <<"U", "r", "e", "d", "b", "a", " ", "(", "E", "U", ")", " ", "2", "0", "1", "6", "/", "1", "0", "0", "0", "0", "0", "0", "0", "0", "0", "0", "0", "0", "0", "0", "0", "0", "0", "0", "0", "0", "0">>,
    <<"U", "r", "e", "d", "b", "a", " ", ch_s, "t", ".", " ", "1", "6", "/", "0", "1", "2", "3", "4", "5", "6", "7", "8", "9", "0", "1", "2", "3", "4", "5", "6", "7", "8", "9", "0", "1">> }

MaxPieces == 3
MaxValidatePieces == 2
MaxDocs == 1

\* All concatenations of at most n fragments.
RECURSIVE Concatenations(_)
Concatenations(n) ==
  IF n = 0 THEN {<<>>}
  ELSE Concatenations(n - 1) \cup {c \o Pieces[j] : c \in Concatenations(n - 1), j \in 1..Len(Pieces)}

\* The citation strings: assembled from at most n fragments, or one of the
\* other citations as it is or with white space around it.
Citations(n) ==
  Concatenations(n) \cup OtherCitations \cup {<<" ">> \o c \o <<"\n">> : c \in OtherCitations}

EmptyStore ==
  [legal_documents |-> {}, legal_provisions |-> {}, legal_provision_versions |-> {},
   cross_references |-> {}, case_law |-> {}]

DocumentStatus == {"in_force", "amended", "repealed", "not_yet_in_force"}

\* Documents a store may hold: id, title, and whether it is a statute with articles.
ZKP_ID == <<"z", "a", "k", "o", "n", "-", "o", "-", "k", "a", "z", "e", "n", "s", "k", "e", "m", "-", "p", "o", "s", "t", "o", "p", "k", "u">>
ECLI_ID == <<"E", "C", "L", "I", ":", "S", "I", ":", "V", "S", "R", "S", ":", "2", "0", "2", "0", ":", "1", "2", "3">>
DocumentChoices ==
  { [id |-> ZKP_ID, title |-> <<"Z", "a", "k", "o", "n", " ", "o", " ", "k", "a", "z", "e", "n", "s", "k", "e", "m", " ", "p", "o", "s", "t", "o", "p", "k", "u">>],
    [id |-> ECLI_ID, title |-> <<"S", "o", "d", "b", "a", " ", "V", "S", "R", "S">>] }
ProvisionRefs == {<<"6">>, <<"3", "a">>}

\* The subsets of S with at most n elements.
RECURSIVE SubsetsUpTo(_, _)
SubsetsUpTo(S, n) ==
  IF n = 0 THEN { {} }
  ELSE SubsetsUpTo(S, n - 1) \cup {s \cup {x} : s \in SubsetsUpTo(S, n - 1), x \in S}

\* legal_documents.id is the primary key.
UniqueIds(docs) == \A d1, d2 \in docs : d1.id = d2.id => d1 = d2

\* legal_provisions.document_id REFERENCES legal_documents(id), foreign_keys = ON.
ForeignKeyHolds(store) ==
  \A p \in store.legal_provisions : \E d \in store.legal_documents : d.id = p.document_id

DocumentRows ==
  {[id |-> c.id, title |-> c.title, status |-> st] : c \in DocumentChoices, st \in DocumentStatus}

CitationStores ==
  {[EmptyStore EXCEPT !.legal_documents = docs, !.legal_provisions = provs] :
     docs \in {ds \in SubsetsUpTo(DocumentRows, MaxDocs) : UniqueIds(ds)},
     provs \in SUBSET {[document_id |-> ZKP_ID, provision_ref |-> ref] : ref \in ProvisionRefs}}

IdleCite ==
  /\ format = "none" /\ dateArg = None /\ today = <<>> /\ query = <<>> /\ text = <<>>
  /\ result = <<>> /\ lookups = <<>>
  /\ lastIndex = NoLastIndex /\ calls = 0

InitCite ==
  /\ op = "init"
  /\ citation \in Citations(MaxPieces)
  /\ db = EmptyStore
  /\ IdleCite

ParseCitation ==
  /\ op = "init"
  /\ op' = "parseCitation"
  /\ result' = parseCitation(citation)
  /\ UNCHANGED <<citation, format, dateArg, db, today, query, text, lookups, lastIndex, calls>>

FormatCitation ==
  /\ op = "init"
  /\ \E fmt \in CitationFormat :
       /\ format' = fmt
       /\ result' = formatCitation(citation, fmt)
  /\ op' = "formatCitation"
  /\ UNCHANGED <<citation, dateArg, db, today, query, text, lookups, lastIndex, calls>>

NextCite == ParseCitation \/ FormatCitation

SpecCite == InitCite /\ [][NextCite]_vars

InitValidate ==
  /\ op = "init"
  /\ citation \in Citations(MaxValidatePieces)
  /\ db \in {s \in CitationStores : ForeignKeyHolds(s)}
  /\ IdleCite

ValidateCitation ==
  /\ op = "init"
  /\ op' = "validateCitation"
  /\ LET v == validateCitation(db, citation)
     IN result' = v.value /\ lookups' = v.queries
  /\ UNCHANGED <<citation, format, dateArg, db, today, query, text, lastIndex, calls>>

NextValidate == ValidateCitation

SpecValidate == InitValidate /\ [][NextValidate]_vars

(***************************************************************************)
(* Properties of the citation parser and formatter                         *)
(***************************************************************************)
\* s contains sub as a contiguous substring.
Contains(s, sub) ==
  \E i \in 1..(Len(s) - Len(sub) + 1) : SubSeq(s, i, i + Len(sub) - 1) = sub

StartsWith(s, prefix) == Len(s) >= Len(prefix) /\ SubSeq(s, 1, Len(prefix)) = prefix

\* The patterns of parseCitation in the order the claim gives, and the
\* reference type each one stands for.
CitationPatterns ==
  <<ECLI_PATTERN, URADNI_LIST_PATTERN, EU_DIRECTIVE_PATTERN, EU_REGULATION_PATTERN,
    STATUTE_PATTERN, ALT_STATUTE_PATTERN>>
PatternType == <<"case_law", "statute", "eu_directive", "eu_regulation", "statute", "statute">>

\* A decimal numeral without its leading zeros.
RECURSIVE WithoutLeadingZeros(_)
WithoutLeadingZeros(s) ==
  IF Len(s) > 1 /\ Head(s) = "0" THEN WithoutLeadingZeros(Tail(s)) ELSE s

\* The numeral stands for an integer below 2^53, which a Number holds exactly.
HoldsExactly(numeral) == Less(StripZeros(DigitsOf(numeral)), TwoTo53)

\* Index of the first pattern that matches t, 0 when none does.
FirstMatching(t) ==
  LET hits == {j \in 1..Len(CitationPatterns) : test(CitationPatterns[j], t)}
  IN IF hits = {} THEN 0 ELSE CHOOSE j \in hits : \A h \in hits : j <= h

\* C3: parseCitation returns a result for every input; the result is invalid,
\* with a non-empty error and an empty document_id, exactly when the trimmed
\* input is empty ('Empty citation') or matches no pattern; otherwise its type
\* and fields are those of the first pattern, in the fixed order, that matches
\* (the identifier of an EU act carries its year and number without leading
\* zeros when the number is below 2^53).
C3_ParseFirstMatchWins ==
  op = "parseCitation" =>
    LET t == trim(citation)
        k == FirstMatching(t)
        cap(n) == Get(match(CitationPatterns[k], t)).caps[n]
    IN /\ result.raw = citation
       /\ result.valid = (t # <<>> /\ k # 0)
       /\ ~result.valid =>
            /\ result.document_id = <<>>
            /\ IsSome(result.error) /\ Get(result.error) # <<>>
            /\ (t = <<>>) = (result.error = Some(<<"E", "m", "p", "t", "y", " ", "c", "i", "t", "a", "t", "i", "o", "n">>))
       /\ result.valid =>
            /\ result.error = None /\ result.document_id # <<>>
            /\ result.type = PatternType[k]
            /\ IsSome(result.ecli) = (k = 1)
            /\ IsSome(result.uradni_list_ref) = (k = 2)
            /\ IsSome(result.article) = (k \in {5, 6})
            /\ IsSome(result.code_abbreviation) = (k \in {5, 6})
            /\ k = 1 => result.ecli = Some(t) /\ result.document_id = t
            /\ k = 2 => result.uradni_list_ref = cap(1)
                        /\ result.document_id = <<"U", "L", "-">> \o Get(cap(1))
            /\ k = 3 => /\ StartsWith(result.document_id, <<"d", "i", "r", "e", "c", "t", "i", "v", "e", ":">>)
                        /\ HoldsExactly(Get(cap(3))) =>
                             result.document_id =
                               <<"d", "i", "r", "e", "c", "t", "i", "v", "e", ":">> \o WithoutLeadingZeros(Get(cap(2)))
                                 \o <<"/">> \o WithoutLeadingZeros(Get(cap(3)))
            /\ k = 4 => /\ StartsWith(result.document_id, <<"r", "e", "g", "u", "l", "a", "t", "i", "o", "n", ":">>)
                        /\ HoldsExactly(Get(cap(3))) =>
                             result.document_id =
                               <<"r", "e", "g", "u", "l", "a", "t", "i", "o", "n", ":">> \o WithoutLeadingZeros(Get(cap(2)))
                                 \o <<"/">> \o WithoutLeadingZeros(Get(cap(3)))
            /\ k = 5 => result.article = cap(2) /\ result.code_abbreviation = cap(3)
                        /\ result.paragraph = cap(1)
            /\ k = 6 => result.article = cap(2) /\ result.code_abbreviation = cap(1)
                        /\ result.paragraph = cap(3)

\* C3 witness: an input with surrounding whitespace that only the last
\* pattern (abbreviation first) matches has been parsed as a statute reference.
C3_Witness ==
  /\ op = "parseCitation" /\ citation # trim(citation)
  /\ FirstMatching(trim(citation)) = 6 /\ result.valid /\ IsSome(result.article)

\* The two word orders of a statute citation, whatever the abbreviation token:
\* '<article>. \u010dlen <abbr>' and '<abbr>[,] <article>. \u010dlen'.
AbbrToken ==
  Cat(<<Set(Range("A", "Z") \cup Range("a", "z")),
        Star(Set(Range("A", "Z") \cup Range("a", "z") \cup Digit \cup {"-"}))>>)
ArticleFirstForm ==
  RegExp(Cat(<<BOL, Grp(1, Cat(<<Plus(D), Opt(Set(Range("a", "z")))>>)), Lit(<<".", " ", ch_c, "l", "e", "n", " ">>),
               Grp(2, AbbrToken), EOL>>), 2, FALSE)
AbbrFirstForm ==
  RegExp(Cat(<<BOL, Grp(2, AbbrToken), Opt(Chr(",")), Chr(" "),
               Grp(1, Cat(<<Plus(D), Opt(Set(Range("a", "z")))>>)), Lit(<<".", " ", ch_c, "l", "e", "n">>), EOL>>),
         2, FALSE)

IsStatuteForm(c) == test(ArticleFirstForm, c) \/ test(AbbrFirstForm, c)
FormCaps(c) ==
  IF test(ArticleFirstForm, c) THEN Get(match(ArticleFirstForm, c)).caps
  ELSE Get(match(AbbrFirstForm, c)).caps
FormArticle(c) == Get(FormCaps(c)[1])
FormAbbr(c) == Get(FormCaps(c)[2])

TableKeys == {CODE_TO_PIS[j][1] : j \in 1..Len(CODE_TO_PIS)}
CanonicalId(abbr) == (CHOOSE j \in 1..Len(CODE_TO_PIS) : CODE_TO_PIS[j][1] = abbr)
IdOfKey(abbr) == CODE_TO_PIS[CanonicalId(abbr)][2]

\* C4: a citation of either statute form is a valid statute
\* reference whose document_id is the table's identifier for a known
\* abbreviation and the lower-cased abbreviation for an unknown one.
C4_UnknownAbbreviationAccepted ==
  (op = "parseCitation" /\ IsStatuteForm(citation)) =>
    /\ result.valid /\ result.type = "statute"
    /\ result.document_id =
         IF FormAbbr(citation) \in TableKeys THEN IdOfKey(FormAbbr(citation))
         ELSE toLowerCase(FormAbbr(citation))

\* The citation parses as a statute reference with an abbreviation.
IsAbbreviatedStatute(p) ==
  p.valid /\ p.type = "statute" /\ IsSome(p.code_abbreviation)

\* C5: for a citation accepted as a statute reference with an abbreviation of
\* the table, parsing its 'short' rendering gives a valid result with the same
\* document_id and the same article.
C5_ShortRoundTrip ==
  (op = "formatCitation" /\ format = "short") =>
    LET p == parseCitation(citation)
        q == parseCitation(result)
    IN (IsAbbreviatedStatute(p) /\ Get(p.code_abbreviation) \in TableKeys) =>
         q.valid /\ q.document_id = p.document_id /\ q.article = p.article

\* The full statute name the formatter has for abbr, abbr itself when it has none.
FullNameOrAbbr(abbr) ==
  LET js == {j \in 1..Len(CODE_FULL_NAMES) : CODE_FULL_NAMES[j][1] = abbr}
  IN IF js = {} THEN abbr ELSE CODE_FULL_NAMES[CHOOSE j \in js : TRUE][2]

\* C10: for a citation that parses as a statute reference with abbreviation,
\* 'full' is '<article>. \u010dlen <full name> (<abbr>)', 'short' is
\* '<article>. \u010dlen <abbr>', 'pinpoint' is '<article>. \u010dlen', each followed by
\* ', <paragraph>. odstavek' exactly when a paragraph was parsed; the
\* abbreviation stands in for a full name the formatter does not have.
C10_StatuteRendering ==
  op = "formatCitation" =>
    LET p == parseCitation(citation)
        art == Get(p.article)
        abbr == Get(p.code_abbreviation)
        tail == IF IsSome(p.paragraph) THEN <<",", " ">> \o Get(p.paragraph) \o <<".", " ", "o", "d", "s", "t", "a", "v", "e", "k">>
                ELSE <<>>
    IN IsAbbreviatedStatute(p) =>
         /\ format = "full" =>
              result = art \o <<".", " ", ch_c, "l", "e", "n", " ">> \o FullNameOrAbbr(abbr) \o <<" ", "(">> \o abbr \o <<")">> \o tail
         /\ format = "short" => result = art \o <<".", " ", ch_c, "l", "e", "n", " ">> \o abbr \o tail
         /\ format = "pinpoint" => result = art \o <<".", " ", ch_c, "l", "e", "n">> \o tail

\* C10 witness: a 'full' rendering has been produced for a citation with a
\* paragraph and an abbreviation the formatter has no full name for.
C10_Witness ==
  /\ op = "formatCitation" /\ format = "full"
  /\ IsAbbreviatedStatute(parseCitation(citation))
  /\ IsSome(parseCitation(citation).paragraph)
  /\ FullNameOrAbbr(Get(parseCitation(citation).code_abbreviation))
       = Get(parseCitation(citation).code_abbreviation)
  /\ Contains(result, <<".", " ", "o", "d", "s", "t", "a", "v", "e", "k">>)

\* C11: formatCitation returns, in every style, the input string unchanged
\* (surrounding white space included) when parseCitation reports it invalid.
C11_InvalidReturnedUnchanged ==
  (op = "formatCitation" /\ ~parseCitation(citation).valid) => result = citation

\* C11 witness: an unrecognized citation with white space around it has been
\* formatted.
C11_Witness ==
  /\ op = "formatCitation" /\ ~parseCitation(citation).valid
  /\ trim(citation) # <<>> /\ trim(citation) # citation
  /\ result = citation

(***************************************************************************)
(* Properties of the citation validator                                    *)
(***************************************************************************)
\* The rows of the store the validated citation refers to.
CitedDocuments == {d \in db.legal_documents : d.id = result.citation.document_id}
CitedProvisions ==
  {p \in db.legal_provisions :
     /\ p.document_id = result.citation.document_id
     /\ result.citation.article = Some(p.provision_ref)}
ProvisionQueries == {j \in 1..Len(lookups) : lookups[j].table = "legal_provisions"}
Validated == op = "validateCitation" /\ result.citation.valid

\* C7 (as claimed): provision_exists is true only if document_exists is true;
\* the provision is looked up only if the document exists, and without an
\* article provision_exists equals document_exists.
C7_LookupOnlyIfDocumentExists ==
  Validated =>
    /\ result.provision_exists => result.document_exists
    /\ ProvisionQueries # {} => result.document_exists
    /\ ~hasArticle(result.citation) => result.provision_exists = result.document_exists

\* C7 (amended): in a store whose provisions reference existing documents,
\* provision_exists is true only if document_exists is true; when the parsed
\* citation has an article the provision is looked up by (document, article)
\* whether or not the document exists, and provision_exists tells whether a row
\* was found; in every other case there is no such lookup and provision_exists
\* equals document_exists.
C7_ProvisionImpliesDocument ==
  Validated =>
    /\ result.provision_exists => result.document_exists
    /\ IF hasArticle(result.citation)
       THEN /\ Cardinality(ProvisionQueries) = 1
            /\ \A j \in ProvisionQueries :
                 /\ lookups[j].id = result.citation.document_id
                 /\ lookups[j].ref = Get(result.citation.article)
            /\ result.provision_exists = (CitedProvisions # {})
       ELSE /\ ProvisionQueries = {}
            /\ result.provision_exists = result.document_exists

\* C7 witness: a citation with an article has been validated against a store
\* that has the document but not the provision.
C7_Witness ==
  /\ Validated /\ hasArticle(result.citation)
  /\ result.document_exists /\ ~result.provision_exists
  /\ db.legal_provisions # {} /\ ProvisionQueries # {}

\* C8: when the parser reports the citation invalid, no store lookup is made
\* and the result has document_exists and provision_exists false, no status,
\* no title, and the parser's error message as its only warning.
C8_InvalidShortCircuits ==
  op = "validateCitation" =>
    LET parsed == parseCitation(citation)
    IN ~parsed.valid =>
         /\ lookups = <<>>
         /\ result.document_exists = FALSE /\ result.provision_exists = FALSE
         /\ result.status = None /\ result.document_title = None
         /\ result.warnings = <<Get(parsed.error)>>
         /\ Get(parsed.error) # <<>>

\* C8 witness: an unrecognized citation has been validated against a store
\* that holds a document.
C8_Witness ==
  /\ op = "validateCitation" /\ ~result.citation.valid
  /\ trim(citation) # <<>> /\ db.legal_documents # {}
  /\ Len(result.warnings) = 1

\* C9: on a valid parse the warnings are exactly one warning that names the
\* document title when the document exists with status 'repealed' or
\* 'amended', and are empty in every other case.
C9_OneWarningForRepealedOrAmended ==
  Validated =>
    IF \E d \in CitedDocuments : d.status \in {"repealed", "amended"}
    THEN /\ Len(result.warnings) = 1
         /\ \A d \in CitedDocuments : Contains(result.warnings[1], d.title)
    ELSE result.warnings = <<>>

\* C9 witness: a citation of an amended document has been validated.
C9_Witness ==
  /\ Validated /\ result.status = Some("amended")
  /\ Len(result.warnings) = 1

(***************************************************************************)
(* Date normalizer (src/utils/as-of-date.ts)                               *)
(***************************************************************************)
\* The outcome of a call: a returned value or a thrown Error with its message.
Returned(v) == [kind |-> "return", value |-> v]
Thrown(msg) == [kind |-> "throw", message |-> msg]

\* /^\d{4}-\d{2}-\d{2}$/
ISO_DATE_PATTERN ==
  RegExp(Cat(<<BOL, Rep(D, 4, 4), Chr("-"), Rep(D, 2, 2), Chr("-"), Rep(D, 2, 2), EOL>>), 0, FALSE)

\* Day arithmetic of the Date object (ECMAScript MakeDay and its inverses), in
\* days counted from 1 January of year 0 of the proleptic Gregorian calendar.
InLeapYear(y) == (y % 4 = 0 /\ y % 100 # 0) \/ y % 400 = 0
DayFromYear(y) == 365 * y + (y + 3) \div 4 - (y + 99) \div 100 + (y + 399) \div 400
DaysInYear(y) == IF InLeapYear(y) THEN 366 ELSE 365
\* Days of the year before the first day of month m (1..13; 13 is the year's end).
DayWithinYearOfMonth(y, m) ==
  <<0, 31, 59, 90, 120, 151, 181, 212, 243, 273, 304, 334, 365>>[m]
    + (IF m > 2 /\ InLeapYear(y) THEN 1 ELSE 0)
MakeDay(y, m, d) == DayFromYear(y) + DayWithinYearOfMonth(y, m) + (d - 1)
YearFromDay(n) ==
  CHOOSE y \in (n \div 366)..(n \div 365) : DayFromYear(y) <= n /\ n < DayFromYear(y) + DaysInYear(y)
MonthFromDay(n) ==
  CHOOSE m \in 1..12 :
    /\ DayWithinYearOfMonth(YearFromDay(n), m) <= n - DayFromYear(YearFromDay(n))
    /\ n - DayFromYear(YearFromDay(n)) < DayWithinYearOfMonth(YearFromDay(n), m + 1)
DateFromDay(n) ==
  n - DayFromYear(YearFromDay(n)) - DayWithinYearOfMonth(YearFromDay(n), MonthFromDay(n)) + 1

\* The decimal digits of n, left-padded with zeros to the given width.
RECURSIVE Pad(_, _)
Pad(n, width) == IF width = 0 THEN <<>> ELSE Pad(n \div 10, width - 1) \o <<DigitChar(n % 10)>>

\* Date.parse(`${value}T00:00:00Z`) for a value of the shape dddd-dd-dd, as a day
\* number: NaN (None) unless the month is 1..12 and the day 1..31; a day past
\* the end of the month carries into the next month.
DateParse(value) ==
  IF /\ IntOf(DigitsOf(SubSeq(value, 6, 7))) \in 1..12
     /\ IntOf(DigitsOf(SubSeq(value, 9, 10))) \in 1..31
  THEN Some(MakeDay(IntOf(DigitsOf(SubSeq(value, 1, 4))), IntOf(DigitsOf(SubSeq(value, 6, 7))),
                    IntOf(DigitsOf(SubSeq(value, 9, 10)))))
  ELSE None

\* new Date(parsed).toISOString().slice(0, 10), for a year of four digits.
ISODateOfDay(n) ==
  Pad(YearFromDay(n), 4) \o <<"-">> \o Pad(MonthFromDay(n), 2) \o <<"-">> \o Pad(DateFromDay(n), 2)

\* The round trip of isValidCalendarDate on a parsed day number.
roundTrips(parsed, value) == IsSome(parsed) /\ ISODateOfDay(Get(parsed)) = value

\* A plausible slip: any value Date.parse accepts counts as a calendar date.
isValidCalendarDateParseOnly(value) == IsSome(DateParse(value))

isValidCalendarDate(value) == roundTrips(DateParse(value), value)

FormatError == <<"a", "s", "_", "o", "f", "_", "d", "a", "t", "e", " ", "m", "u", "s", "t", " ", "b", "e", " ", "a", "n", " ", "I", "S", "O", " ", "d", "a", "t", "e", " ", "i", "n", " ", "Y", "Y", "Y", "Y", "-", "M", "M", "-", "D", "D", " ", "f", "o", "r", "m", "a", "t">>

\* The body of normalizeAsOfDate after const trimmed = value.trim().
normalizeTrimmed(trimmed) ==
  IF Len(trimmed) = 0 THEN Returned(None)
  ELSE IF ~test(ISO_DATE_PATTERN, trimmed) \/ ~isValidCalendarDate(trimmed)
    THEN Thrown(FormatError)
  ELSE Returned(Some(trimmed))

\* value is None for undefined/null.
normalizeAsOfDate(value) ==
  IF ~IsSome(value) THEN Returned(None) ELSE normalizeTrimmed(trim(Get(value)))

(***************************************************************************)
(* Date inputs and the specification of the date normalizer                *)
(***************************************************************************)
MaxPad == 1

\* Runs of at most n white-space characters.
RECURSIVE Paddings(_)
Paddings(n) ==
  IF n = 0 THEN { <<>> }
  ELSE Paddings(n - 1) \cup {p \o <<w>> : p \in Paddings(n - 1), w \in {" ", "\n", nbsp}}

\* Values of the shape dddd-dd-dd, real dates or not, and values of other shapes.
ShapedDates ==
  {y \o <<"-">> \o m \o <<"-">> \o d :
     y \in { <<"0", "0", "0", "0">>, <<"1", "9", "0", "0">>, <<"2", "0", "0", "0">>, <<"2", "0", "2", "1">>, <<"2", "0", "2", "4">> },
     m \in { <<"0", "0">>, <<"0", "1">>, <<"0", "2">>, <<"0", "4">>, <<"1", "2">>, <<"1", "3">> },
     d \in { <<"0", "0">>, <<"0", "1">>, <<"2", "8">>, <<"2", "9">>, <<"3", "0">>, <<"3", "1">>, <<"3", "2">> }}
OtherValues ==
  { <<>>, <<"2", "0", "2", "1", "-", "2", "-", "0", "3">>, <<"2", "0", "2", "1", "0", "2", "0", "3">>, <<"2", "0", "2", "1", "-", "0", "2", "-", "0", "3", "x">>, <<"x", "0", "2", "1", "-", "0", "2", "-", "0", "3">>, <<"2", "0", "2", "1", "/", "0", "2", "/", "0", "3">>,
    <<"0", "3", "-", "0", "2", "-", "2", "0", "2", "1">>, <<"2", "0", "2", "1", "-", "0", "2", "-", "0", "3", "T", "0", "0", ":", "0", "0", ":", "0", "0", "Z">>, <<"2", "0", "2", "1", "-", "0", "2", " ", "-", "0", "3">>, <<"2", "0", "2", "1", "-", "0", "2", "-", "0">> }
DateArguments ==
  {None} \cup {Some(l \o v \o r) : l \in Paddings(MaxPad), r \in Paddings(MaxPad),
                                   v \in ShapedDates \cup OtherValues}

IdleDate ==
  /\ citation = <<>> /\ format = "none" /\ db = EmptyStore /\ today = <<>> /\ query = <<>>
  /\ text = <<>>
  /\ result = <<>> /\ lookups = <<>>
  /\ lastIndex = NoLastIndex /\ calls = 0

InitDate ==
  /\ op = "init"
  /\ dateArg \in DateArguments
  /\ IdleDate

NormalizeAsOfDate ==
  /\ op = "init"
  /\ op' = "normalizeAsOfDate"
  /\ result' = normalizeAsOfDate(dateArg)
  /\ UNCHANGED <<citation, format, dateArg, db, today, query, text, lookups, lastIndex, calls>>

NextDate == NormalizeAsOfDate

SpecDate == InitDate /\ [][NextDate]_vars

(***************************************************************************)
(* Properties of the date normalizer                                       *)
(***************************************************************************)
\* Four digits, dash, two digits, dash, two digits.
HasDateShape(t) ==
  /\ Len(t) = 10
  /\ \A j \in {1, 2, 3, 4, 6, 7, 9, 10} : t[j] \in Digit
  /\ t[5] = "-" /\ t[8] = "-"

\* The Gregorian calendar: the number of days of month m of year y.
LengthOfMonth(y, m) ==
  IF m \in {4, 6, 9, 11} THEN 30
  ELSE IF m # 2 THEN 31
  ELSE IF y % 400 = 0 \/ (y % 4 = 0 /\ y % 100 # 0) THEN 29
  ELSE 28

DigitValue(c) == CHOOSE n \in 0..9 : <<"0", "1", "2", "3", "4", "5", "6", "7", "8", "9">>[n + 1] = c
YearOf(t) == 1000 * DigitValue(t[1]) + 100 * DigitValue(t[2]) + 10 * DigitValue(t[3]) + DigitValue(t[4])
MonthOf(t) == 10 * DigitValue(t[6]) + DigitValue(t[7])
DayOf(t) == 10 * DigitValue(t[9]) + DigitValue(t[10])

\* t has the date shape and denotes a day of the calendar.
IsRealDate(t) ==
  /\ HasDateShape(t)
  /\ MonthOf(t) \in 1..12
  /\ DayOf(t) \in 1..LengthOfMonth(YearOf(t), MonthOf(t))

\* The value without the white space around it (space, line feed, no-break space).
Stripped(s) ==
  LET inner == {j \in 1..Len(s) : s[j] \notin {" ", "\t", "\n", nbsp}}
  IN IF inner = {} THEN <<>>
     ELSE SubSeq(s, CHOOSE j \in inner : \A h \in inner : j <= h,
                    CHOOSE j \in inner : \A h \in inner : j >= h)

\* C6: normalizeAsOfDate returns undefined for an absent, empty or
\* whitespace-only value; otherwise it returns the trimmed value exactly when
\* that has the shape dddd-dd-dd and denotes a real calendar date, and throws
\* the format error for every other value.
C6_NormalizeAsOfDate ==
  op = "normalizeAsOfDate" =>
    IF ~IsSome(dateArg) \/ Stripped(Get(dateArg)) = <<>> THEN result = Returned(None)
    ELSE IF IsRealDate(Stripped(Get(dateArg))) THEN result = Returned(Some(Stripped(Get(dateArg))))
    ELSE result = Thrown(FormatError)

\* C6 witness: a leap day written with white space around it has been
\* normalized to the bare date.
C6_Witness ==
  /\ op = "normalizeAsOfDate" /\ IsSome(dateArg)
  /\ Get(dateArg) # Stripped(Get(dateArg))
  /\ result = Returned(Some(<<"2", "0", "2", "4", "-", "0", "2", "-", "2", "9">>))

(***************************************************************************)
(* Temporal provision resolver (src/tools/registry.ts)                     *)
(***************************************************************************)
\* a < b on strings: the comparison of JavaScript and of SQLite's BINARY
\* collation, code unit by code unit, a proper prefix being the smaller.
StrLess(a, b) ==
  \E j \in 1..Len(b) :
    /\ \A h \in 1..(j - 1) : h <= Len(a) /\ a[h] = b[h]
    /\ j > Len(a) \/ Code[a[j]] < Code[b[j]]
StrLeq(a, b) == a = b \/ StrLess(a, b)

\* ORDER BY valid_from: NULL sorts before every value.
SqlLess(a, b) == IF IsSome(a) /\ IsSome(b) THEN StrLess(Get(a), Get(b)) ELSE ~IsSome(a) /\ IsSome(b)

\* The rows an ORDER BY valid_from DESC / ASC LIMIT 1 may return.
FirstAsc(rows) == {r \in rows : \A o \in rows : ~SqlLess(o.valid_from, r.valid_from)}
\* A plausible slip: the containing query orders by valid_from ascending.
FirstDescAscending(rows) == FirstAsc(rows)

FirstDesc(rows) == {r \in rows : \A o \in rows : ~SqlLess(r.valid_from, o.valid_from)}

\* A value that JavaScript treats as true: a non-null, non-empty string.
Truthy(o) == IsSome(o) /\ Get(o) # <<>>

\* A plausible slip: the status is decided without looking at today's date.
determineProvisionStatusAtQueryDate(validFrom, validTo, queryDate, todayStr) ==
  IF Truthy(validFrom) /\ StrLess(queryDate, Get(validFrom)) THEN "future"
  ELSE IF Truthy(validTo) /\ StrLeq(Get(validTo), queryDate) THEN "historical"
  ELSE "current"

\* todayStr is new Date().toISOString().slice(0, 10).
determineProvisionStatus(validFrom, validTo, queryDate, todayStr) ==
  IF Truthy(validFrom) /\ StrLess(queryDate, Get(validFrom)) THEN "future"
  ELSE IF Truthy(validTo) /\ StrLeq(Get(validTo), queryDate) THEN "historical"
  ELSE IF /\ (~Truthy(validFrom) \/ StrLeq(Get(validFrom), todayStr))
          /\ (~Truthy(validTo) \/ StrLess(todayStr, Get(validTo)))
    THEN "current"
  ELSE IF Truthy(validTo) /\ StrLeq(Get(validTo), todayStr) THEN "historical"
  ELSE "current"

\* The rows of a table in the order of their rowid, the order in which SQLite
\* returns them from a scan of the table or of idx_xref_target when the query
\* has no ORDER BY.
RECURSIVE RowsById(_)
RowsById(rows) ==
  IF rows = {} THEN <<>>
  ELSE LET first == CHOOSE r \in rows : \A o \in rows : r.id <= o.id
       IN <<first>> \o RowsById(rows \ {first})

\* rows.map(row => ({...})): one amendment record for every row of the array.
amendmentRecords(rows) ==
  [j \in 1..Len(rows) |->
     [source_document_id |-> rows[j].source_document_id, amendment_date |-> None,
      ref_type |-> rows[j].ref_type]]

\* The amendment records of a provision: an array with one record per
\* cross_references row of type amended_by that targets the provision.
getAmendments(store, documentId, provisionRef) ==
  amendmentRecords(RowsById({c \in store.cross_references :
                               /\ c.target_document_id = documentId
                               /\ c.target_provision_ref = Some(provisionRef)
                               /\ c.ref_type = "amended_by"}))

\* The columns the queries select, with a status and, when asked for, amendments.
ProvisionVersion(row, status, amendments) ==
  [provision_ref |-> row.provision_ref, chapter |-> row.chapter, section |-> row.section,
   article |-> row.article, title |-> row.title, content |-> row.content,
   valid_from |-> row.valid_from, valid_to |-> row.valid_to, status |-> status,
   amendments |-> amendments]

\* WHERE document_id = ? AND provision_ref = ? AND (valid_from IS NULL OR
\* valid_from <= ?) AND (valid_to IS NULL OR valid_to > ?)
VersionsAt(store, input, queryDate) ==
  {r \in store.legal_provision_versions :
     /\ r.document_id = input.document_id /\ r.provision_ref = input.provision_ref
     /\ (~IsSome(r.valid_from) \/ StrLeq(Get(r.valid_from), queryDate))
     /\ (~IsSome(r.valid_to) \/ StrLess(queryDate, Get(r.valid_to)))}

\* WHERE document_id = ? AND provision_ref = ? AND valid_from > ?
VersionsAfter(store, input, queryDate) ==
  {r \in store.legal_provision_versions :
     /\ r.document_id = input.document_id /\ r.provision_ref = input.provision_ref
     /\ IsSome(r.valid_from) /\ StrLess(queryDate, Get(r.valid_from))}

NotFoundVersion(input) ==
  [provision_ref |-> input.provision_ref, chapter |-> None, section |-> None,
   article |-> input.provision_ref, title |-> None, content |-> <<>>,
   valid_from |-> None, valid_to |-> None, status |-> "not_found", amendments |-> None]

DateRequiredError == <<"d", "a", "t", "e", " ", "p", "a", "r", "a", "m", "e", "t", "e", "r", " ", "i", "s", " ", "r", "e", "q", "u", "i", "r", "e", "d", " ", "a", "n", "d", " ", "m", "u", "s", "t", " ", "b", "e", " ", "i", "n", " ", "Y", "Y", "Y", "Y", "-", "M", "M", "-", "D", "D", " ", "f", "o", "r", "m", "a", "t">>

\* The body of getProvisionAtDate for the rows of the two queries: the results
\* it may return (the store decides between rows that tie on valid_from).
resolveRows(store, input, queryDate, todayStr, rows, futureRows) ==
  IF rows # {}
  THEN {Returned(ProvisionVersion(r,
                   determineProvisionStatus(r.valid_from, r.valid_to, queryDate, todayStr),
                   IF input.include_amendments
                   THEN Some(getAmendments(store, input.document_id, input.provision_ref))
                   ELSE None)) : r \in FirstDesc(rows)}
  ELSE IF futureRows # {}
  THEN {Returned(ProvisionVersion(r, "future", None)) : r \in FirstAsc(futureRows)}
  ELSE {Returned(NotFoundVersion(input))}

\* An absent date is replaced by today instead of being refused.
resolveNormalizedToday(store, input, normalized, todayStr, queryDate) ==
  IF normalized.kind = "throw" THEN {normalized}
  ELSE IF ~Truthy(normalized.value)
  THEN resolveRows(store, input, todayStr, todayStr,
                   VersionsAt(store, input, todayStr), VersionsAfter(store, input, todayStr))
  ELSE resolveRows(store, input, queryDate, todayStr,
                   VersionsAt(store, input, queryDate), VersionsAfter(store, input, queryDate))

\* The body of getProvisionAtDate after const queryDate = normalizeAsOfDate(input.date).
resolveNormalized(store, input, normalized, todayStr, queryDate) ==
  IF normalized.kind = "throw" THEN {normalized}
  ELSE IF ~Truthy(normalized.value) THEN {Thrown(DateRequiredError)}
  ELSE resolveRows(store, input, queryDate, todayStr,
                   VersionsAt(store, input, queryDate), VersionsAfter(store, input, queryDate))

\* The outcomes getProvisionAtDate may have on the store, today being todayStr.
getProvisionAtDate(store, input, todayStr) ==
  resolveNormalized(store, input, normalizeAsOfDate(input.date), todayStr,
                    IF IsSome(input.date) THEN trim(Get(input.date)) ELSE <<>>)

(***************************************************************************)
(* Version stores, queries and the specification of the resolver           *)
(***************************************************************************)
MaxVersions == 2

AMENDING_ID == <<"z", "a", "k", "o", "n", "-", "o", "-", "s", "p", "r", "e", "m", "e", "m", "b", "a", "h", "-", "z", "k", "p">>
ResolverDocuments ==
  { [id |-> ZKP_ID, title |-> <<"Z", "a", "k", "o", "n", " ", "o", " ", "k", "a", "z", "e", "n", "s", "k", "e", "m", " ", "p", "o", "s", "t", "o", "p", "k", "u">>, status |-> "amended"],
    [id |-> AMENDING_ID, title |-> <<"Z", "a", "k", "o", "n", " ", "o", " ", "s", "p", "r", "e", "m", "e", "m", "b", "a", "h", " ", "Z", "K", "P">>, status |-> "in_force"] }

ValidFromValues == {None, Some(<<"2", "0", "1", "0", "-", "0", "1", "-", "0", "1">>), Some(<<"2", "0", "1", "5", "-", "0", "6", "-", "0", "1">>)}
ValidToValues == {None, Some(<<"2", "0", "1", "5", "-", "0", "6", "-", "0", "1">>), Some(<<"2", "0", "3", "0", "-", "0", "1", "-", "0", "1">>)}

\* The version rows a store may hold.
VersionRows ==
  {[document_id |-> ZKP_ID, provision_ref |-> v[1], chapter |-> None, section |-> None,
    article |-> v[1], title |-> None, content |-> v[2], valid_from |-> f, valid_to |-> t] :
     v \in { <<<<"6">>, <<"s", "t", "a", "r", "o", " ", "b", "e", "s", "e", "d", "i", "l", "o">>>>, <<<<"6">>, <<"n", "o", "v", "o", " ", "b", "e", "s", "e", "d", "i", "l", "o">>>>, <<<<"7">>, <<"s", "t", "a", "r", "o", " ", "b", "e", "s", "e", "d", "i", "l", "o">>>> },
     f \in ValidFromValues, t \in ValidToValues}

\* The cross_references rows of the store: the table has no uniqueness
\* constraint, and two provisions of the amending statute amend provision 6.
CrossReferences ==
  { [id |-> 1, source_document_id |-> AMENDING_ID, source_provision_ref |-> Some(<<"1">>),
     target_document_id |-> ZKP_ID, target_provision_ref |-> Some(<<"6">>), ref_type |-> "amended_by"],
    [id |-> 2, source_document_id |-> AMENDING_ID, source_provision_ref |-> None,
     target_document_id |-> ZKP_ID, target_provision_ref |-> Some(<<"6">>), ref_type |-> "references"],
    [id |-> 3, source_document_id |-> AMENDING_ID, source_provision_ref |-> None,
     target_document_id |-> ZKP_ID, target_provision_ref |-> Some(<<"7">>), ref_type |-> "amended_by"],
    [id |-> 4, source_document_id |-> AMENDING_ID, source_provision_ref |-> Some(<<"2">>),
     target_document_id |-> ZKP_ID, target_provision_ref |-> Some(<<"6">>), ref_type |-> "amended_by"] }

VersionStores ==
  {[EmptyStore EXCEPT !.legal_documents = ResolverDocuments,
                      !.legal_provision_versions = versions,
                      !.cross_references = CrossReferences] :
     versions \in SubsetsUpTo(VersionRows, MaxVersions)}

QueryDates ==
  {None, Some(<<>>), Some(<<"2", "0", "2", "1", "-", "0", "2", "-", "3", "0">>), Some(<<"2", "0", "0", "5", "-", "0", "1", "-", "0", "1">>), Some(<<"2", "0", "1", "4", "-", "1", "2", "-", "3", "1">>),
   Some(<<" ", "2", "0", "2", "0", "-", "0", "1", "-", "0", "1", "\n">>)}
TodayValues == { <<"2", "0", "1", "2", "-", "0", "3", "-", "0", "4">>, <<"2", "0", "2", "4", "-", "0", "1", "-", "0", "1">> }

IdleResolve ==
  /\ citation = <<>> /\ format = "none" /\ dateArg = None /\ text = <<>>
  /\ result = <<>> /\ lookups = <<>>
  /\ lastIndex = NoLastIndex /\ calls = 0

InitResolve ==
  /\ op = "init"
  /\ db \in VersionStores
  /\ today \in TodayValues
  /\ query \in [document_id : {ZKP_ID}, provision_ref : { <<"6">> }, date : QueryDates,
                include_amendments : BOOLEAN]
  /\ IdleResolve

GetProvisionAtDate ==
  /\ op = "init"
  /\ op' = "getProvisionAtDate"
  /\ result' \in getProvisionAtDate(db, query, today)
  /\ UNCHANGED <<citation, format, dateArg, db, today, query, text, lookups, lastIndex, calls>>

NextResolve == GetProvisionAtDate

SpecResolve == InitResolve /\ [][NextResolve]_vars

(***************************************************************************)
(* Properties of the temporal provision resolver                           *)
(***************************************************************************)
\* A date of the shape dddd-dd-dd as the number yyyymmdd.
DateNumber(t) == 10000 * YearOf(t) + 100 * MonthOf(t) + DayOf(t)

\* The resolver has answered a query with a well-formed date.
Resolved ==
  op = "getProvisionAtDate" /\ IsSome(query.date) /\ IsRealDate(Stripped(Get(query.date)))
QueryDay == DateNumber(Stripped(Get(query.date)))
TodayDay == DateNumber(today)

\* The version rows of the queried (document, provision) pair.
PairVersions ==
  {r \in db.legal_provision_versions :
     r.document_id = query.document_id /\ r.provision_ref = query.provision_ref}
StartsBy(r, day) == ~IsSome(r.valid_from) \/ DateNumber(Get(r.valid_from)) <= day
EndsAfter(r, day) == ~IsSome(r.valid_to) \/ day < DateNumber(Get(r.valid_to))
Containing == {r \in PairVersions : StartsBy(r, QueryDay) /\ EndsAfter(r, QueryDay)}
Later == {r \in PairVersions : IsSome(r.valid_from) /\ DateNumber(Get(r.valid_from)) > QueryDay}
\* o does not start after r; a row without valid_from starts before every other.
StartsNoLater(o, r) ==
  ~IsSome(o.valid_from) \/ (IsSome(r.valid_from) /\ DateNumber(Get(o.valid_from)) <= DateNumber(Get(r.valid_from)))
SameColumns(v, r) ==
  /\ v.provision_ref = r.provision_ref /\ v.chapter = r.chapter /\ v.section = r.section
  /\ v.article = r.article /\ v.title = r.title /\ v.content = r.content
  /\ v.valid_from = r.valid_from /\ v.valid_to = r.valid_to

\* C1: for a well-formed date, if some version row of the pair contains the
\* date the result is one of those rows with the greatest valid_from;
\* otherwise, if some row starts after the date, it is the one with the
\* smallest valid_from, tagged 'future'; otherwise it is the synthetic
\* 'not_found' result with empty content and null valid_from and valid_to.
C1_ResolveBranches ==
  Resolved =>
    /\ result.kind = "return"
    /\ IF Containing # {}
       THEN \E r \in Containing :
              SameColumns(result.value, r) /\ \A o \in Containing : StartsNoLater(o, r)
       ELSE IF Later # {}
       THEN /\ result.value.status = "future"
            /\ \E r \in Later :
                 SameColumns(result.value, r) /\ \A o \in Later : StartsNoLater(r, o)
       ELSE /\ result.value.status = "not_found" /\ result.value.content = <<>>
            /\ result.value.valid_from = None /\ result.value.valid_to = None

\* C1 witness: no version contains the date, two versions start after it on
\* different days, and the answer is tagged 'future'.
C1_Witness ==
  /\ Resolved /\ Containing = {}
  /\ \E a, b \in Later : a.valid_from # b.valid_from
  /\ result.kind = "return" /\ result.value.status = "future"

\* The resolver has answered from a version that contains the query date.
ResolvedContaining == Resolved /\ Containing # {} /\ result.kind = "return"
ResultEnded == IsSome(result.value.valid_to) /\ DateNumber(Get(result.value.valid_to)) <= TodayDay
ResultHoldsToday == StartsBy(result.value, TodayDay) /\ EndsAfter(result.value, TodayDay)

\* C2 (as claimed): for a version that contains the query date the status is
\* 'current' if and only if today lies in [valid_from, valid_to), 'historical'
\* if and only if valid_to is set and on or before today, and never 'future'.
C2_CurrentIffTodayInInterval ==
  ResolvedContaining =>
    /\ (result.value.status = "current") = ResultHoldsToday
    /\ (result.value.status = "historical") = ResultEnded
    /\ result.value.status # "future"

\* C2 (amended): for a version that contains the query date the status is
\* 'historical' if and only if valid_to is set and on or before today, and
\* 'current' in every other case, also when the version starts after today;
\* 'future' is never produced by this branch.
C2_HistoricalIffEnded ==
  ResolvedContaining =>
    /\ (result.value.status = "historical") = ResultEnded
    /\ (result.value.status = "current") = ~ResultEnded
    /\ result.value.status # "future"

\* C2 witness: with versions [2010-01-01, 2015-06-01) and [2015-06-01, null)
\* and today after 2015-06-01, the query at 2014-12-31 has been answered with
\* the first version as 'historical'.
C2_Witness ==
  /\ ResolvedContaining /\ Cardinality(PairVersions) = 2
  /\ \E r \in PairVersions : r.valid_from = Some(<<"2", "0", "1", "0", "-", "0", "1", "-", "0", "1">>) /\ r.valid_to = Some(<<"2", "0", "1", "5", "-", "0", "6", "-", "0", "1">>)
  /\ \E r \in PairVersions : r.valid_from = Some(<<"2", "0", "1", "5", "-", "0", "6", "-", "0", "1">>) /\ r.valid_to = None
  /\ today = <<"2", "0", "2", "4", "-", "0", "1", "-", "0", "1">> /\ Stripped(Get(query.date)) = <<"2", "0", "1", "4", "-", "1", "2", "-", "3", "1">>
  /\ result.value.valid_from = Some(<<"2", "0", "1", "0", "-", "0", "1", "-", "0", "1">>) /\ result.value.status = "historical"

(***************************************************************************)
(* Cross-reference extraction (extractCrossReferences)                     *)
(***************************************************************************)
\* The class [A-Z\u010c\u0160\u017d] and the class [A-Z\u010c\u0160\u017d0-9-] of the statute abbreviation.
AbbreviationStart == UpperLetter \cup {ch_C, ch_S, ch_Z}
AbbreviationChar == AbbreviationStart \cup Digit \cup {"-"}

\* \u010dlen(?:a|om|u)?
ClenForm == Cat(<<Lit(<<ch_c, "l", "e", "n">>), Opt(Alt(<<Lit(<<"a">>), Lit(<<"o", "m">>), Lit(<<"u">>)>>))>>)

\* /(\d+)\.\s*\u010dlen(?:a|om|u)?\s+([A-Z\u010c\u0160\u017d][A-Z\u010c\u0160\u017d0-9-]+(?:-\d+)?)/g
ARTICLE_WITH_STATUTE ==
  RegExp(Cat(<<Grp(1, Plus(D)), Chr("."), Star(WS), ClenForm, Plus(WS),
               Grp(2, Cat(<<Set(AbbreviationStart), Plus(Set(AbbreviationChar)),
                            Opt(Cat(<<Chr("-"), Plus(D)>>))>>))>>), 2, FALSE)

\* /(\d+)\.\s*\u010dlen(?:a|om|u)?(?!\s+[A-Z\u010c\u0160\u017d])/g
ARTICLE_ONLY ==
  RegExp(Cat(<<Grp(1, Plus(D)), Chr("."), Star(WS), ClenForm,
               NotFollowedBy(Cat(<<Plus(WS), Set(AbbreviationStart)>>))>>), 1, FALSE)

\* /(\d+)\.\s*odstavek\s+(\d+)\.\s*\u010dlen(?:a|om|u)?/g
PARAGRAPH_ARTICLE ==
  RegExp(Cat(<<Grp(1, Plus(D)), Chr("."), Star(WS), Lit(<<"o", "d", "s", "t", "a", "v", "e", "k">>), Plus(WS),
               Grp(2, Plus(D)), Chr("."), Star(WS), ClenForm>>), 2, FALSE)

\* Every candidate is kept: no seen set.
KeepAll(candidates) == [j \in 1..Len(candidates) |-> candidates[j].entry]

\* if (!seen.has(key)) { seen.add(key); results.push(entry) } over the
\* candidates in order: a candidate is pushed when no earlier one had its key.
KeepFirstByKey(candidates) ==
  LET numbered == [j \in 1..Len(candidates) |-> [j |-> j, c |-> candidates[j]]]
      kept == SelectSeq(numbered,
                LAMBDA x : \A i \in 1..(x.j - 1) : candidates[i].key # x.c.key)
  IN [j \in 1..Len(kept) |-> kept[j].c.entry]

\* The key and the entry of one match of each class.
ParagraphArticleCandidate(m) ==
  [key |-> <<"p">> \o Get(m.caps[1]) \o <<"-", "a">> \o Get(m.caps[2]),
   entry |-> [target_statute |-> None, target_article |-> Some(Get(m.caps[2])),
              target_paragraph |-> Some(Get(m.caps[1])), raw_text |-> m.text]]

ArticleWithStatuteCandidate(m) ==
  [key |-> Get(m.caps[2]) \o <<"-", "a">> \o Get(m.caps[1]),
   entry |-> [target_statute |-> Some(Get(m.caps[2])), target_article |-> Some(Get(m.caps[1])),
              target_paragraph |-> None, raw_text |-> m.text]]

ArticleOnlyCandidate(m) ==
  [key |-> <<"s", "e", "l", "f", "-", "a">> \o Get(m.caps[1]),
   entry |-> [target_statute |-> None, target_article |-> Some(Get(m.caps[1])),
              target_paragraph |-> None, raw_text |-> m.text]]

\* The candidates of the three loops, in the order the loops run.
crossReferenceCandidates(t) ==
  LET paragraphs == execAll(PARAGRAPH_ARTICLE, t, 1)
      statutes == execAll(ARTICLE_WITH_STATUTE, t, 1)
      selfs == execAll(ARTICLE_ONLY, t, 1)
  IN [j \in 1..Len(paragraphs) |-> ParagraphArticleCandidate(paragraphs[j])]
       \o [j \in 1..Len(statutes) |-> ArticleWithStatuteCandidate(statutes[j])]
       \o [j \in 1..Len(selfs) |-> ArticleOnlyCandidate(selfs[j])]

extractCrossReferences(t) == KeepFirstByKey(crossReferenceCandidates(t))

\* Fragments of legal text with references of the three classes.
XrefPieces ==
  << <<"v", " ", "s", "k", "l", "a", "d", "u", " ", "z", " ">>, <<"4", "2", ".", " ", ch_c, "l", "e", "n", "o", "m">>, <<"4", "2", ".", " ", ch_c, "l", "e", "n", "a", " ", "Z", "K", "P">>, <<"4", "2", ".", " ", ch_c, "l", "e", "n", " ", "Z", "K", "P">>,
     <<"3", ".", " ", "o", "d", "s", "t", "a", "v", "e", "k", " ", "7", ".", " ", ch_c, "l", "e", "n", "a">>, <<" ", "T", "a", " ", "z", "a", "k", "o", "n">>, <<",", " ">>, <<"7", ".", " ", ch_c, "l", "e", "n", "u", " ", "K", "Z", "-", "1">>, <<"4", "2", ".", " ", ch_c, "l", "e", "n">> >>

MaxXrefPieces == 3

\* All concatenations of at most n of the fragments.
RECURSIVE Texts(_, _)
Texts(pieces, n) ==
  IF n = 0 THEN {<<>>}
  ELSE Texts(pieces, n - 1) \cup {c \o pieces[j] : c \in Texts(pieces, n - 1), j \in 1..Len(pieces)}

IdleText ==
  /\ citation = <<>> /\ format = "none" /\ dateArg = None /\ db = EmptyStore
  /\ today = <<>> /\ query = <<>> /\ result = <<>> /\ lookups = <<>>
  /\ lastIndex = NoLastIndex /\ calls = 0

InitXref ==
  /\ op = "init"
  /\ text \in Texts(XrefPieces, MaxXrefPieces)
  /\ IdleText

ExtractCrossReferences ==
  /\ op = "init"
  /\ op' = "extractCrossReferences"
  /\ result' = extractCrossReferences(text)
  /\ UNCHANGED <<citation, format, dateArg, db, today, query, text, lookups, lastIndex, calls>>

NextXref == ExtractCrossReferences

SpecXref == InitXref /\ [][NextXref]_vars

(***************************************************************************)
(* Properties of the cross-reference extractor                             *)
(***************************************************************************)
\* Two matches share a character of the text.
Overlap(m1, m2) == m1.index < m2.end /\ m2.index < m1.end

\* C12: no span of the text matched by ARTICLE_WITH_STATUTE (an article
\* reference in any of its forms followed by an abbreviation) is matched, in
\* whole or in part, by ARTICLE_ONLY as well; such a reference gives the
\* entry with its statute and no self-referential entry for the same article.
C12_StatuteSpanNotRematched ==
  op = "extractCrossReferences" =>
    LET statutes == execAll(ARTICLE_WITH_STATUTE, text, 1)
        selfs == execAll(ARTICLE_ONLY, text, 1)
    IN \A j \in 1..Len(statutes) :
         /\ \A k \in 1..Len(selfs) : ~Overlap(statutes[j], selfs[k])
         /\ (Len(statutes) = 1 /\ text = statutes[1].text) =>
              \A n \in 1..Len(result) : result[n].target_statute # None


\* The article references of a text, read off the text itself: a run of
\* digits that starts at i, a full stop, optional white space and the word
\* \u010dlen with the longest of its endings a, om, u.  number is the digit run,
\* after the first position behind the reference.
DigitRunEnd(t, i) ==
  CHOOSE e \in i..Len(t) :
    (\A k \in i..e : t[k] \in Digit) /\ (e = Len(t) \/ t[e + 1] \notin Digit)

SkipWhiteSpace(t, p) ==
  CHOOSE q \in p..(Len(t) + 1) :
    (\A k \in p..(q - 1) : t[k] \in WhiteSpace) /\ (q = Len(t) + 1 \/ t[q] \notin WhiteSpace)

HasAt(t, p, w) == p + Len(w) - 1 <= Len(t) /\ SubSeq(t, p, p + Len(w) - 1) = w

IsArticleReferenceAt(t, i) ==
  /\ t[i] \in Digit /\ (i = 1 \/ t[i - 1] \notin Digit)
  /\ HasAt(t, DigitRunEnd(t, i) + 1, <<".">>)
  /\ HasAt(t, SkipWhiteSpace(t, DigitRunEnd(t, i) + 2), <<ch_c, "l", "e", "n">>)

ArticleReferenceAt(t, i) ==
  LET e == DigitRunEnd(t, i)
      w == SkipWhiteSpace(t, e + 2) + 4
  IN [number |-> SubSeq(t, i, e),
      after |-> IF HasAt(t, w, <<"o", "m">>) THEN w + 2
                ELSE IF HasAt(t, w, <<"a">>) \/ HasAt(t, w, <<"u">>) THEN w + 1 ELSE w]

ArticleReferenceStarts(t) == {i \in 1..Len(t) : IsArticleReferenceAt(t, i)}

\* White space and an upper-case abbreviation token ([A-Z\u010c\u0160\u017d][A-Z\u010c\u0160\u017d0-9-]+,
\* the token of class 2) stand at position p.
AbbreviationTokenAt(t, p) ==
  LET q == SkipWhiteSpace(t, p)
  IN q > p /\ q + 1 <= Len(t) /\ t[q] \in AbbreviationStart /\ t[q + 1] \in AbbreviationChar

\* C13: a text with exactly one article reference, no paragraph clause and no
\* upper-case abbreviation token behind the reference yields exactly one
\* entry: the reference's article number, no statute and no paragraph.
C13_BareReferenceYieldsOneSelfEntry ==
  (/\ op = "extractCrossReferences"
   /\ Cardinality(ArticleReferenceStarts(text)) = 1
   /\ ~Contains(text, <<"o", "d", "s", "t", "a", "v", "e", "k">>)
   /\ \A i \in ArticleReferenceStarts(text) :
        ~AbbreviationTokenAt(text, ArticleReferenceAt(text, i).after))
  => /\ Len(result) = 1
     /\ \A i \in ArticleReferenceStarts(text) :
          result[1].target_article = Some(ArticleReferenceAt(text, i).number)
     /\ result[1].target_statute = None
     /\ result[1].target_paragraph = None


\* What an entry points at.
Target(e) == <<e.target_statute, e.target_article, e.target_paragraph>>

\* C14: the result of extractCrossReferences has no two entries with the same
\* (target_statute, target_article, target_paragraph); of the matches with one
\* target the first, in the order paragraph class, statute class, bare class,
\* is the entry kept; two matches have the same key exactly when they have the
\* same target, so keys of different classes never collide.
C14_OneEntryPerTarget ==
  op = "extractCrossReferences" =>
    LET candidates == crossReferenceCandidates(text)
    IN /\ \A i, j \in 1..Len(result) : i # j => Target(result[i]) # Target(result[j])
       /\ \A n \in 1..Len(result) :
            \E j \in 1..Len(candidates) :
              /\ candidates[j].entry = result[n]
              /\ \A i \in 1..(j - 1) : Target(candidates[i].entry) # Target(result[n])
       /\ \A j \in 1..Len(candidates) :
            \E n \in 1..Len(result) : Target(result[n]) = Target(candidates[j].entry)
       /\ \A i, j \in 1..Len(candidates) :
            (candidates[i].key = candidates[j].key)
              <=> (Target(candidates[i].entry) = Target(candidates[j].entry))

\* A text that names article 7 in a paragraph clause and with a statute: the
\* three classes give three entries for it, and the second bare match
\* of the article is dropped.
C14_Witness ==
  /\ op = "extractCrossReferences"
  /\ text = <<"3", ".", " ", "o", "d", "s", "t", "a", "v", "e", "k", " ", "7", ".", " ", ch_c, "l", "e", "n", "a", ",", " ", "7", ".", " ", ch_c, "l", "e", "n", "u", " ", "K", "Z", "-", "1">>
  /\ Len(crossReferenceCandidates(text)) = 4
  /\ Len(result) = 3
  /\ result[1].target_paragraph = Some(<<"3">>)
  /\ result[2].target_statute = Some(<<"K", "Z", "-", "1">>)
  /\ result[3].raw_text = <<"7", ".", " ", ch_c, "l", "e", "n", "a">>


(***************************************************************************)
(* EU reference extraction (extractEUReferences)                           *)
(***************************************************************************)
includes(s, sub) ==
  \E i \in 1..(Len(s) - Len(sub) + 1) : SubSeq(s, i, i + Len(sub) - 1) = sub

startsWith(s, prefix) == Len(s) >= Len(prefix) /\ SubSeq(s, 1, Len(prefix)) = prefix

\* (?:\u010dlen(?:a)?\s+([\w.()]+)\s+)?
ArticlePrefix ==
  Opt(Cat(<<Lit(<<ch_c, "l", "e", "n">>), Opt(Lit(<<"a">>)), Plus(WS),
            Grp(1, Plus(Set(WordChar \cup {".", "(", ")"}))), Plus(WS)>>))

\* (Direktiv[aeo]|Uredb[aeo])
InstrumentWord ==
  Grp(2, Alt(<<Cat(<<Lit(<<"D", "i", "r", "e", "k", "t", "i", "v">>), Set({"a", "e", "o"})>>),
               Cat(<<Lit(<<"U", "r", "e", "d", "b">>), Set({"a", "e", "o"})>>)>>))

\* /(?:\u010dlen(?:a)?\s+([\w.()]+)\s+)?(?:(Direktiv[aeo]|Uredb[aeo])\s+\((\w+)\)\s+(?:(?:\u0161t|br)\.\s+)?(\d{4})\/(\d+))/gi
MODERN_PATTERN ==
  RegExp(Cat(<<ArticlePrefix, InstrumentWord, Plus(WS), Chr("("), Grp(3, Plus(Set(WordChar))),
               Chr(")"), Plus(WS),
               Opt(Cat(<<Alt(<<Lit(<<ch_s, "t">>), Lit(<<"b", "r">>)>>), Chr("."), Plus(WS)>>)),
               Grp(4, Rep(D, 4, 4)), Chr("/"), Grp(5, Plus(D))>>), 5, TRUE)

\* /(?:\u010dlen(?:a)?\s+([\w.()]+)\s+)?(?:(Direktiv[aeo]|Uredb[aeo])\s+(\d{2,4})\/(\d+)\/(\w+))/gi
OLD_STYLE_PATTERN ==
  RegExp(Cat(<<ArticlePrefix, InstrumentWord, Plus(WS), Grp(3, Rep(D, 2, 4)), Chr("/"),
               Grp(4, Plus(D)), Chr("/"), Grp(5, Plus(Set(WordChar)))>>), 5, TRUE)

IMPLEMENTS_KEYWORDS == << <<"z", "a", " ", "i", "z", "v", "a", "j", "a", "n", "j", "e">>, <<"z", "a", " ", "p", "r", "e", "n", "o", "s">>, <<"p", "r", "e", "n", "a", ch_s, "a">> >>
SUPPLEMENTS_KEYWORDS == << <<"d", "o", "p", "o", "l", "n", "j", "u", "j", "e">>, <<"z", "a", " ", "d", "o", "p", "o", "l", "n", "i", "t", "e", "v">> >>
APPLIES_KEYWORDS == << <<"n", "a", " ", "p", "o", "d", "l", "a", "g", "i">>, <<"v", " ", "s", "k", "l", "a", "d", "u", " ", "z">> >>

\* The applies keywords are looked for before the supplements keywords.
classifyAppliesFirst(precedingText) ==
  LET lower == toLowerCase(precedingText)
      any(kws) == \E j \in 1..Len(kws) : includes(lower, kws[j])
  IN IF any(IMPLEMENTS_KEYWORDS) THEN "implements"
     ELSE IF any(APPLIES_KEYWORDS) THEN "applies"
     ELSE IF any(SUPPLEMENTS_KEYWORDS) THEN "supplements"
     ELSE "references"

classifyReferenceType(precedingText) ==
  LET lower == toLowerCase(precedingText)
      any(kws) == \E j \in 1..Len(kws) : includes(lower, kws[j])
  IN IF any(IMPLEMENTS_KEYWORDS) THEN "implements"
     ELSE IF any(SUPPLEMENTS_KEYWORDS) THEN "supplements"
     ELSE IF any(APPLIES_KEYWORDS) THEN "applies"
     ELSE "references"

normalizeYear(yearStr) ==
  LET year == parseInt(yearStr)
  IN IF NumLess(year, 100)
     THEN (IF ~NumLess(year, 50) THEN Num(1900 + IntOf(year)) ELSE Num(2000 + IntOf(year)))
     ELSE year

resolveYearAndNumber(first, second) ==
  LET isPlausibleYear(n) == ~NumLess(n, 1950) /\ NumAtMost(n, 2040)
      expand(n) == IF NumLess(n, 100)
                   THEN (IF ~NumLess(n, 50) THEN Num(1900 + IntOf(n)) ELSE Num(2000 + IntOf(n)))
                   ELSE n
  IN IF isPlausibleYear(first) THEN [year |-> first, number |-> second]
     ELSE IF isPlausibleYear(expand(second)) THEN [year |-> expand(second), number |-> first]
     ELSE IF isPlausibleYear(second) THEN [year |-> second, number |-> first]
     ELSE [year |-> first, number |-> second]

typeFromSlovenian(word) ==
  IF startsWith(toLowerCase(word), <<"d", "i", "r", "e", "k", "t", "i", "v">>) THEN "directive" ELSE "regulation"

\* text.slice(Math.max(0, match.index - 50), match.index)
precedingText(t, m) == SubSeq(t, IF m.index - 50 > 1 THEN m.index - 50 ELSE 1, m.index - 1)

\* The key without the article.
EUKeyWithoutArticle(docType, year, number, article) ==
  (IF docType = "directive" THEN <<"d", "i", "r", "e", "c", "t", "i", "v", "e">> ELSE <<"r", "e", "g", "u", "l", "a", "t", "i", "o", "n">>) \o <<":">>
    \o NumberToString(year) \o <<"/">> \o NumberToString(number) \o <<":">>

\* `${docType}:${year}/${number}:${article ?? ''}`
EUKey(docType, year, number, article) ==
  (IF docType = "directive" THEN <<"d", "i", "r", "e", "c", "t", "i", "v", "e">> ELSE <<"r", "e", "g", "u", "l", "a", "t", "i", "o", "n">>) \o <<":">>
    \o NumberToString(year) \o <<"/">> \o NumberToString(number) \o <<":">>
    \o (IF article = None THEN <<>> ELSE Get(article))

\* One iteration of a loop of extractEUReferences: the key and the entry of a
\* match whose year, number and community are the groups y, n and c.  The
\* file of src/parsers takes the first number as the year (resolve is FALSE);
\* the other file of the extractor runs resolveYearAndNumber on the two.
EUCandidate(t, m, y, n, c, resolve) ==
  LET docType == typeFromSlovenian(Get(m.caps[2]))
      yn == IF resolve
            THEN resolveYearAndNumber(normalizeYear(Get(m.caps[y])), parseInt(Get(m.caps[n])))
            ELSE [year |-> normalizeYear(Get(m.caps[y])), number |-> parseInt(Get(m.caps[n]))]
  IN [key |-> EUKey(docType, yn.year, yn.number, m.caps[1]),
      entry |-> [type |-> docType, year |-> yn.year, number |-> yn.number,
                 community |-> Get(m.caps[c]), article |-> m.caps[1],
                 reference_type |-> classifyReferenceType(precedingText(t, m)),
                 raw_match |-> m.text]]

\* The candidates of the modern-style loop and then of the old-style loop.
EUCandidates(t, resolve) ==
  LET modern == execAll(MODERN_PATTERN, t, 1)
      old == execAll(OLD_STYLE_PATTERN, t, 1)
  IN [j \in 1..Len(modern) |-> EUCandidate(t, modern[j], 4, 5, 3, resolve)]
       \o [j \in 1..Len(old) |-> EUCandidate(t, old[j], 3, 4, 5, resolve)]

\* extractEUReferences of the file with resolveYearAndNumber.
extractEUReferences(t) == KeepFirstByKey(EUCandidates(t, TRUE))

\* extractEUReferences of src/parsers/eu-reference-parser.ts.
parsers_extractEUReferences(t) == KeepFirstByKey(EUCandidates(t, FALSE))

\* Fragments of statute text with EU references, keywords and filling text;
\* the number of the last reference is 2^53 + 1, which no double holds.
EUPieces ==
  << <<"z", "a", " ", "p", "r", "e", "n", "o", "s", " ">>, <<"d", "o", "p", "o", "l", "n", "j", "u", "j", "e", " ">>, <<"V", " ", "s", "k", "l", "a", "d", "u", " ", "z", " ">>,
     <<"d", "o", "l", "o", ch_c, "b", "e", " ", "o", " ", "v", "a", "r", "s", "t", "v", "u", " ", "p", "o", "t", "r", "o", ch_s, "n", "i", "k", "a", " ", "p", "r", "i", " ", "n", "a", "k", "u", "p", "u", " ">>,
     <<"D", "i", "r", "e", "k", "t", "i", "v", "a", " ", "(", "E", "U", ")", " ", "2", "0", "1", "9", "/", "7", "7", "0">>, <<"D", "i", "r", "e", "k", "t", "i", "v", "e", " ", "2", "0", "1", "9", "/", "7", "7", "0", "/", "E", "U">>, <<"U", "r", "e", "d", "b", "a", " ", "(", "E", "U", ")", " ", ch_s, "t", ".", " ", "1", "2", "1", "5", "/", "2", "0", "1", "2">>,
     <<ch_c, "l", "e", "n", " ", "6", " ", "D", "i", "r", "e", "k", "t", "i", "v", "e", " ", "(", "E", "U", ")", " ", "2", "0", "1", "9", "/", "7", "7", "0">>, <<"D", "i", "r", "e", "k", "t", "i", "v", "a", " ", "9", "5", "/", "4", "6", "/", "E", "S">>,
     <<"U", "r", "e", "d", "b", "a", " ", "(", "E", "U", ")", " ", "2", "0", "1", "6", "/", "9", "0", "0", "7", "1", "9", "9", "2", "5", "4", "7", "4", "0", "9", "9", "3">> >>

MaxEUPieces == 3

InitEU ==
  /\ op = "init"
  /\ text \in Texts(EUPieces, MaxEUPieces)
  /\ IdleText

ExtractEUReferences ==
  /\ op = "init"
  /\ op' = "extractEUReferences"
  /\ result' = extractEUReferences(text)
  /\ UNCHANGED <<citation, format, dateArg, db, today, query, text, lookups, lastIndex, calls>>

ParsersExtractEUReferences ==
  /\ op = "init"
  /\ op' = "parsers/extractEUReferences"
  /\ result' = parsers_extractEUReferences(text)
  /\ UNCHANGED <<citation, format, dateArg, db, today, query, text, lookups, lastIndex, calls>>

NextEU == ExtractEUReferences \/ ParsersExtractEUReferences

SpecEU == InitEU /\ [][NextEU]_vars

(***************************************************************************)
(* Properties of the EU reference extractor                                *)
(***************************************************************************)
EUExtracted == op \in {"extractEUReferences", "parsers/extractEUReferences"}

\* The year the two numbers a and b of a reference stand for: values below
\* 100 are expanded around the pivot 50; a is the year when it lies in
\* 1950..2040, else b when b does, else a.
Expanded(v) ==
  IF NumLess(v, 100) THEN (IF NumLess(v, 50) THEN Num(2000 + IntOf(v)) ELSE Num(1900 + IntOf(v)))
  ELSE v
Plausible(v) == ~NumLess(v, 1950) /\ NumAtMost(v, 2040)

ReferenceYear(a, b) ==
  IF Plausible(Expanded(a)) THEN Expanded(a)
  ELSE IF Plausible(Expanded(b)) THEN Expanded(b) ELSE Expanded(a)

\* The two numbers of every reference of either style in the text, with the
\* matched text.
EUNumberPairs(t) ==
  LET modern == execAll(MODERN_PATTERN, t, 1)
      old == execAll(OLD_STYLE_PATTERN, t, 1)
  IN {[raw |-> modern[j].text, a |-> parseInt(Get(modern[j].caps[4])),
       b |-> parseInt(Get(modern[j].caps[5]))] : j \in 1..Len(modern)}
     \cup {[raw |-> old[j].text, a |-> parseInt(Get(old[j].caps[3])),
            b |-> parseInt(Get(old[j].caps[4]))] : j \in 1..Len(old)}

\* C15: the year of every entry of extractEUReferences is the first number a
\* of the reference when a (expanded if below 100) is in 1950..2040, else the
\* second number b when b is, else a.
C15_YearByPlausibility ==
  EUExtracted =>
    \A n \in 1..Len(result) : \A p \in EUNumberPairs(text) :
      p.raw = result[n].raw_match => result[n].year = ReferenceYear(p.a, p.b)


\* The matches of both patterns in the order of the two loops.
EUMatches(t) == execAll(MODERN_PATTERN, t, 1) \o execAll(OLD_STYLE_PATTERN, t, 1)

\* The type the text in front of position i stands for: the at most 50
\* characters before i, in lower case, are searched for the keywords.
TypeBefore(t, i) ==
  LET from == IF i > 51 THEN i - 50 ELSE 1
      window == [j \in 1..(i - from) |-> toLowerChar(t[from + j - 1])]
  IN IF Contains(window, <<"z", "a", " ", "i", "z", "v", "a", "j", "a", "n", "j", "e">>) \/ Contains(window, <<"z", "a", " ", "p", "r", "e", "n", "o", "s">>)
        \/ Contains(window, <<"p", "r", "e", "n", "a", ch_s, "a">>) THEN "implements"
     ELSE IF Contains(window, <<"d", "o", "p", "o", "l", "n", "j", "u", "j", "e">>) \/ Contains(window, <<"z", "a", " ", "d", "o", "p", "o", "l", "n", "i", "t", "e", "v">>)
       THEN "supplements"
     ELSE IF Contains(window, <<"n", "a", " ", "p", "o", "d", "l", "a", "g", "i">>) \/ Contains(window, <<"v", " ", "s", "k", "l", "a", "d", "u", " ", "z">>)
       THEN "applies"
     ELSE "references"

\* C16: the reference_type of an entry depends only on the at most 50
\* characters in front of the start of its match, compared without regard to
\* case: implements keywords win over supplements keywords, these over
\* applies keywords, and without a keyword the type is references.
C16_TypeFromPrecedingWindow ==
  EUExtracted =>
    LET matches == EUMatches(text)
    IN \A n \in 1..Len(result) :
         \E j \in 1..Len(matches) :
           /\ matches[j].text = result[n].raw_match
           /\ \A i \in 1..(j - 1) : matches[i].text # result[n].raw_match
           /\ result[n].reference_type = TypeBefore(text, matches[j].index)

\* An applies keyword with a capital letter and then a supplements keyword
\* stand in front of a reference: the type is supplements.
C16_Witness ==
  /\ EUExtracted
  /\ text = <<"V", " ", "s", "k", "l", "a", "d", "u", " ", "z", " ", "d", "o", "p", "o", "l", "n", "j", "u", "j", "e", " ", "D", "i", "r", "e", "k", "t", "i", "v", "a", " ", "(", "E", "U", ")", " ", "2", "0", "1", "9", "/", "7", "7", "0">>
  /\ Len(result) = 1
  /\ result[1].reference_type = "supplements"


\* What an entry stands for.
Instrument(e) == <<e.type, e.year, e.number, e.article>>

\* C17: the result of extractEUReferences has no two entries with the same
\* (type, year, number, article); of the matches of an instrument and article,
\* modern style before old style, the first is the entry kept, whichever
\* pattern found the later ones, and a reference to another article of the
\* same instrument has an entry of its own.
C17_OneEntryPerInstrumentArticle ==
  EUExtracted =>
    LET candidates == EUCandidates(text, op = "extractEUReferences")
    IN /\ \A i, j \in 1..Len(result) :
            i # j => Instrument(result[i]) # Instrument(result[j])
       /\ \A n \in 1..Len(result) :
            \E j \in 1..Len(candidates) :
              /\ candidates[j].entry = result[n]
              /\ \A i \in 1..(j - 1) : Instrument(candidates[i].entry) # Instrument(result[n])
       /\ \A j \in 1..Len(candidates) :
            \E n \in 1..Len(result) : Instrument(result[n]) = Instrument(candidates[j].entry)

\* Directive 2019/770 in the old style, in the modern style and with an
\* article: the modern-style entry and the entry with the article are kept,
\* the old-style reference is dropped.
C17_Witness ==
  /\ EUExtracted
  /\ text = <<"D", "i", "r", "e", "k", "t", "i", "v", "e", " ", "2", "0", "1", "9", "/", "7", "7", "0", "/", "E", "U", "D", "i", "r", "e", "k", "t", "i", "v", "a", " ", "(", "E", "U", ")", " ", "2", "0", "1", "9", "/", "7", "7", "0", ch_c, "l", "e", "n", " ", "6", " ", "D", "i", "r", "e", "k", "t", "i", "v", "e", " ", "(", "E", "U", ")", " ", "2", "0", "1", "9", "/", "7", "7", "0">>
  /\ Len(result) = 2
  /\ result[1].raw_match = <<"D", "i", "r", "e", "k", "t", "i", "v", "a", " ", "(", "E", "U", ")", " ", "2", "0", "1", "9", "/", "7", "7", "0">> /\ result[1].article = None
  /\ result[2].article = Some(<<"6">>) /\ result[2].number = Num(770)


(***************************************************************************)
(* Amendment references (src/utils/as-of-date.ts)                          *)
(***************************************************************************)
\* (?:Ur\.?\s*l\.?\s*RS,?\s*\u0161t\.?\s*(\d+\/\d+(?:-\w+)?))
GazetteTail ==
  Cat(<<Lit(<<"U", "r">>), Opt(Chr(".")), Star(WS), Chr("l"), Opt(Chr(".")), Star(WS), Lit(<<"R", "S">>),
        Opt(Chr(",")), Star(WS), Lit(<<ch_s, "t">>), Opt(Chr(".")), Star(WS),
        Grp(1, Cat(<<Plus(D), Chr("/"), Plus(D), Opt(Cat(<<Chr("-"), Plus(Set(WordChar))>>))>>))>>)

\* <word>\s+z\s+(?:<acts>)\s*,?\s*
ByAct(acts) == Cat(<<Plus(WS), Chr("z"), Plus(WS), Alt(acts), Star(WS), Opt(Chr(",")), Star(WS)>>)

\* AMENDMENT_PATTERNS.spremenjen, razveljavljen, crtan and dodan: all with /gi.
SpremenjenPattern ==
  RegExp(Cat(<<Alt(<<Lit(<<"S", "p", "r", "e", "m", "e", "n", "j", "e", "n">>), Lit(<<"s", "p", "r", "e", "m", "e", "n", "j", "e", "n">>)>>),
               ByAct(<<Lit(<<"z", "a", "k", "o", "n", "o", "m">>), Lit(<<"u", "r", "e", "d", "b", "o">>), Lit(<<"o", "d", "l", "o", "k", "o", "m">>)>>), GazetteTail>>), 1, TRUE)

RazveljavljenPattern ==
  RegExp(Cat(<<Alt(<<Lit(<<"R", "a", "z", "v", "e", "l", "j", "a", "v", "l", "j", "e", "n">>), Lit(<<"r", "a", "z", "v", "e", "l", "j", "a", "v", "l", "j", "e", "n">>)>>), Plus(WS),
               Opt(Cat(<<Chr("z"), Plus(WS),
                         Alt(<<Lit(<<"o", "d", "l", "o", ch_c, "b", "o">>), Lit(<<"z", "a", "k", "o", "n", "o", "m">>), Lit(<<"u", "r", "e", "d", "b", "o">>)>>),
                         Star(WS), Opt(Chr(",")), Star(WS)>>)),
               GazetteTail>>), 1, TRUE)

CrtanPattern ==
  RegExp(Cat(<<Alt(<<Lit(<<ch_C, "r", "t", "a", "n">>), Lit(<<ch_c, "r", "t", "a", "n">>)>>),
               ByAct(<<Lit(<<"z", "a", "k", "o", "n", "o", "m">>), Lit(<<"u", "r", "e", "d", "b", "o">>)>>), GazetteTail>>), 1, TRUE)

DodanPattern ==
  RegExp(Cat(<<Alt(<<Lit(<<"D", "o", "d", "a", "n">>), Lit(<<"d", "o", "d", "a", "n">>)>>),
               ByAct(<<Lit(<<"z", "a", "k", "o", "n", "o", "m">>), Lit(<<"u", "r", "e", "d", "b", "o">>), Lit(<<"o", "d", "l", "o", "k", "o", "m">>)>>), GazetteTail>>), 1, TRUE)

\* The four loops of extractAmendmentReferences in their order: the kind
\* written into the key and the entry, and the pattern.
AmendmentLoops ==
  << [kind |-> <<"s", "p", "r", "e", "m", "e", "n", "j", "e", "n">>, pattern |-> SpremenjenPattern],
     [kind |-> <<"r", "a", "z", "v", "e", "l", "j", "a", "v", "l", "j", "e", "n">>, pattern |-> RazveljavljenPattern],
     [kind |-> <<ch_c, "r", "t", "a", "n">>, pattern |-> CrtanPattern],
     [kind |-> <<"d", "o", "d", "a", "n">>, pattern |-> DodanPattern] >>

\* content.substring(0, index).split('\n') and its last element; index counts
\* from 0.
currentLine(content, index) ==
  LET breaks == {k \in 1..index : content[k] = "\n"}
      start == IF breaks = {} THEN 1 ELSE (CHOOSE k \in breaks : \A j \in breaks : j <= k) + 1
  IN SubSeq(content, start, index)

\* The line is looked at before the offset.
determinePositionLineFirst(content, index) ==
  IF Len(trim(currentLine(content, index))) < 10 THEN "suffix"
  ELSE IF index < 100 THEN "header"
  ELSE "inline"

determinePosition(content, index) ==
  IF index < 100 THEN "header"
  ELSE IF Len(trim(currentLine(content, index))) < 10 THEN "suffix"
  ELSE "inline"

\* The key without the kind.
AmendmentKeyWithoutKind(kind, uradni_list_ref, m) ==
  IF uradni_list_ref = None THEN m.text ELSE Get(uradni_list_ref)

\* `<kind>-${uradni_list_ref ?? match[0]}`
AmendmentKey(kind, uradni_list_ref, m) ==
  kind \o <<"-">> \o (IF uradni_list_ref = None THEN m.text ELSE Get(uradni_list_ref))

\* One iteration of a loop: match.index counts from 0.
AmendmentCandidate(content, kind, m) ==
  LET uradni_list_ref == IF m.caps[1] # None /\ Get(m.caps[1]) # <<>>
                         THEN Some(<<"R", "S", ",", " ", ch_s, "t", ".", " ">> \o Get(m.caps[1])) ELSE None
  IN [key |-> AmendmentKey(kind, uradni_list_ref, m),
      entry |-> [uradni_list_ref |-> uradni_list_ref, amendment_type |-> kind,
                 position |-> determinePosition(content, m.index - 1),
                 raw_text |-> m.text]]

AmendmentCandidates(content) ==
  LET found == [k \in 1..Len(AmendmentLoops) |->
                  LET ms == execAll(AmendmentLoops[k].pattern, content, 1)
                  IN [j \in 1..Len(ms) |->
                        AmendmentCandidate(content, AmendmentLoops[k].kind, ms[j])]]
  IN found[1] \o found[2] \o found[3] \o found[4]

extractAmendmentReferences(content) == KeepFirstByKey(AmendmentCandidates(content))

\* Contents: what stands in front of the first amendment note, and the notes.
AmendPrefixes ==
  LET paragraph == <<"T", "a", " ", ch_c, "l", "e", "n", " ", "u", "r", "e", "j", "a", " ", "p", "o", "g", "o", "j", "e", ",", " ", "p", "o", "d", " ", "k", "a", "t", "e", "r", "i", "m", "i", " ", "s", "e", " ", "l", "a", "h", "k", "o", " ", "p", "r", "i", "d", "o", "b", "i", " ", "d", "o", "v", "o", "l", "j", "e", "n", "j", "e", " ", "z", "a", " ", "o", "p", "r", "a", "v", "l", "j", "a", "n", "j", "e", " ", "d", "e", "j", "a", "v", "n", "o", "s", "t", "i", " ", "v", " ", "d", "r", ch_z, "a", "v", "i", ".", " ">>
  IN { <<>>, paragraph, paragraph \o <<"\n">>, paragraph \o <<",", " ">>,
       paragraph \o <<"\n", " ", " ", "O", "p", "o", "m", "b", "a", ":", " ", " ">>, paragraph \o <<"\n", "(", "g", "l", "e", "j", " ", "t", "u", "d", "i", " ">> }

AmendPieces ==
  << <<"S", "p", "r", "e", "m", "e", "n", "j", "e", "n", " ", "z", " ", "z", "a", "k", "o", "n", "o", "m", ",", " ", "U", "r", ".", " ", "l", ".", " ", "R", "S", ",", " ", ch_s, "t", ".", " ", "6", "3", "/", "1", "3", ".", " ">>,
     <<"s", "p", "r", "e", "m", "e", "n", "j", "e", "n", " ", "z", " ", "u", "r", "e", "d", "b", "o", " ", "U", "r", ".", "l", ".", " ", "R", "S", " ", ch_s, "t", ".", " ", "6", "3", "/", "1", "3", ";", " ">>,
     <<"R", "A", "Z", "V", "E", "L", "J", "A", "V", "L", "J", "E", "N", " ", "U", "r", ".", " ", "l", ".", " ", "R", "S", ",", " ", ch_s, "t", ".", " ", "6", "3", "/", "1", "3", ".", " ">>,
     <<"S", "p", "r", "e", "m", "e", "n", "j", "e", "n", " ", "z", " ", "o", "d", "l", "o", "k", "o", "m", ",", " ", "U", "r", ".", " ", "l", ".", " ", "R", "S", ",", " ", ch_s, "t", ".", " ", "2", "1", "/", "1", "8", "-", "Z", "N", "O", "r", "g", ".", " ">>,
     <<ch_C, "r", "t", "a", "n", " ", "z", " ", "z", "a", "k", "o", "n", "o", "m", ",", " ", "U", "r", ".", " ", "l", ".", " ", "R", "S", ",", " ", ch_s, "t", ".", " ", "6", "3", "/", "1", "3", ".", " ">>,
     <<"D", "o", "d", "a", "n", " ", "z", " ", "z", "a", "k", "o", "n", "o", "m", ",", " ", "U", "r", ".", " ", "l", ".", " ", "R", "S", ",", " ", ch_s, "t", ".", " ", "6", "3", "/", "1", "3", ".", " ">> >>

MaxAmendPieces == 2

InitAmend ==
  /\ op = "init"
  /\ text \in {p \o c : p \in AmendPrefixes, c \in Texts(AmendPieces, MaxAmendPieces)}
  /\ IdleText

ExtractAmendmentReferences ==
  /\ op = "init"
  /\ op' = "extractAmendmentReferences"
  /\ result' = extractAmendmentReferences(text)
  /\ UNCHANGED <<citation, format, dateArg, db, today, query, text, lookups, lastIndex, calls>>

NextAmend == ExtractAmendmentReferences

SpecAmend == InitAmend /\ [][NextAmend]_vars


(***************************************************************************)
(* Properties of the amendment extractor                                   *)
(***************************************************************************)
\* The kind of an entry and the gazette reference it names.
KindAndRef(e) == <<e.amendment_type, e.uradni_list_ref>>

\* C18: extractAmendmentReferences emits, for each kind, at most one entry per
\* gazette reference: of several matches of a kind with one number the first
\* is kept, a match with another number has an entry of its own, and a number
\* matched under two kinds has one entry per kind.
C18_OneEntryPerKindAndRef ==
  op = "extractAmendmentReferences" =>
    LET candidates == AmendmentCandidates(text)
    IN /\ \A i, j \in 1..Len(result) : i # j => KindAndRef(result[i]) # KindAndRef(result[j])
       /\ \A n \in 1..Len(result) :
            \E j \in 1..Len(candidates) :
              /\ candidates[j].entry = result[n]
              /\ \A i \in 1..(j - 1) : KindAndRef(candidates[i].entry) # KindAndRef(result[n])
       /\ \A j \in 1..Len(candidates) :
            \E n \in 1..Len(result) : KindAndRef(result[n]) = KindAndRef(candidates[j].entry)

\* Number 63/13 under the kinds spremenjen and razveljavljen: two entries.
C18_Witness ==
  /\ op = "extractAmendmentReferences"
  /\ text = <<"S", "p", "r", "e", "m", "e", "n", "j", "e", "n", " ", "z", " ", "z", "a", "k", "o", "n", "o", "m", ",", " ", "U", "r", ".", " ", "l", ".", " ", "R", "S", ",", " ", ch_s, "t", ".", " ", "6", "3", "/", "1", "3", ".", " ", "R", "A", "Z", "V", "E", "L", "J", "A", "V", "L", "J", "E", "N", " ", "U", "r", ".", " ", "l", ".", " ", "R", "S", ",", " ", ch_s, "t", ".", " ", "6", "3", "/", "1", "3", ".", " ">>
  /\ Len(result) = 2
  /\ result[1].uradni_list_ref = Some(<<"R", "S", ",", " ", ch_s, "t", ".", " ", "6", "3", "/", "1", "3">>)
  /\ result[2].uradni_list_ref = result[1].uradni_list_ref
  /\ result[1].amendment_type = <<"s", "p", "r", "e", "m", "e", "n", "j", "e", "n">> /\ result[2].amendment_type = <<"r", "a", "z", "v", "e", "l", "j", "a", "v", "l", "j", "e", "n">>

\* The position of a match that starts at offset index (counted from 0),
\* read off the content: the characters of the match's line in front of the
\* match, from the first to the last that is not white space, are counted.
PositionAt(content, index) ==
  LET lineStart == CHOOSE k \in 1..(index + 1) :
                     /\ k = 1 \/ content[k - 1] = "\n"
                     /\ \A j \in k..index : content[j] # "\n"
      inked == {j \in lineStart..index : content[j] \notin WhiteSpace}
      width == IF inked = {} THEN 0
               ELSE (CHOOSE j \in inked : \A i \in inked : i <= j)
                      - (CHOOSE j \in inked : \A i \in inked : i >= j) + 1
  IN IF index < 100 THEN "header" ELSE IF width < 10 THEN "suffix" ELSE "inline"

\* C19: the position of an entry is header when its match starts before
\* offset 100; otherwise suffix when the part of the match's line in front of
\* the match has fewer than 10 characters after trimming; otherwise inline.
C19_PositionByOffsetThenLine ==
  op = "extractAmendmentReferences" =>
    \A n \in 1..Len(result) :
      \E k \in 1..Len(AmendmentLoops) :
        /\ AmendmentLoops[k].kind = result[n].amendment_type
        /\ LET ms == execAll(AmendmentLoops[k].pattern, text, 1)
           IN \E j \in 1..Len(ms) :
                /\ ms[j].text = result[n].raw_text
                /\ \A i \in 1..(j - 1) : ms[i].text # result[n].raw_text
                /\ result[n].position = PositionAt(text, ms[j].index - 1)

\* A note behind the first 100 characters on a line of its own, indented and
\* introduced by a word of seven letters: suffix.
C19_Witness ==
  /\ op = "extractAmendmentReferences"
  /\ Len(text) > 111 /\ SubSeq(text, 100, 111) = <<"\n", " ", " ", "O", "p", "o", "m", "b", "a", ":", " ", " ">>
  /\ Len(result) = 1
  /\ result[1].raw_text = <<"D", "o", "d", "a", "n", " ", "z", " ", "z", "a", "k", "o", "n", "o", "m", ",", " ", "U", "r", ".", " ", "l", ".", " ", "R", "S", ",", " ", ch_s, "t", ".", " ", "6", "3", "/", "1", "3">>
  /\ result[1].position = "suffix"


(***************************************************************************)
(* Effective dates (extractEffectiveDate)                                  *)
(***************************************************************************)
SLOVENIAN_MONTHS ==
  << <<"j", "a", "n", "u", "a", "r">>, <<"f", "e", "b", "r", "u", "a", "r">>, <<"m", "a", "r", "e", "c">>, <<"a", "p", "r", "i", "l">>, <<"m", "a", "j">>, <<"j", "u", "n", "i", "j">>,
     <<"j", "u", "l", "i", "j">>, <<"a", "v", "g", "u", "s", "t">>, <<"s", "e", "p", "t", "e", "m", "b", "e", "r">>, <<"o", "k", "t", "o", "b", "e", "r">>, <<"n", "o", "v", "e", "m", "b", "e", "r">>, <<"d", "e", "c", "e", "m", "b", "e", "r">> >>

\* /(\d{1,2})\.\s*(\d{1,2})\.\s*(\d{4})/
numericPattern ==
  RegExp(Cat(<<Grp(1, Rep(D, 1, 2)), Chr("."), Star(WS), Grp(2, Rep(D, 1, 2)), Chr("."),
               Star(WS), Grp(3, Rep(D, 4, 4))>>), 3, FALSE)

\* /(\d{1,2})\.\s*(januar(?:ja)?|februar(?:ja)?|marc(?:a|ec)|april(?:a)?|maj(?:a)?|junij(?:a)?|julij(?:a)?|august(?:a)?|september|septembr(?:a)?|oktober|oktobr(?:a)?|november|novembr(?:a)?|december|decembr(?:a)?)\s+(\d{4})/i
wordPattern ==
  RegExp(Cat(<<Grp(1, Rep(D, 1, 2)), Chr("."), Star(WS),
               Grp(2, Alt(<<Cat(<<Lit(<<"j", "a", "n", "u", "a", "r">>), Opt(Lit(<<"j", "a">>))>>),
                            Cat(<<Lit(<<"f", "e", "b", "r", "u", "a", "r">>), Opt(Lit(<<"j", "a">>))>>),
                            Cat(<<Lit(<<"m", "a", "r", "c">>), Alt(<<Lit(<<"a">>), Lit(<<"e", "c">>)>>)>>),
                            Cat(<<Lit(<<"a", "p", "r", "i", "l">>), Opt(Lit(<<"a">>))>>),
                            Cat(<<Lit(<<"m", "a", "j">>), Opt(Lit(<<"a">>))>>),
                            Cat(<<Lit(<<"j", "u", "n", "i", "j">>), Opt(Lit(<<"a">>))>>),
                            Cat(<<Lit(<<"j", "u", "l", "i", "j">>), Opt(Lit(<<"a">>))>>),
                            Cat(<<Lit(<<"a", "u", "g", "u", "s", "t">>), Opt(Lit(<<"a">>))>>),
                            Lit(<<"s", "e", "p", "t", "e", "m", "b", "e", "r">>), Cat(<<Lit(<<"s", "e", "p", "t", "e", "m", "b", "r">>), Opt(Lit(<<"a">>))>>),
                            Lit(<<"o", "k", "t", "o", "b", "e", "r">>), Cat(<<Lit(<<"o", "k", "t", "o", "b", "r">>), Opt(Lit(<<"a">>))>>),
                            Lit(<<"n", "o", "v", "e", "m", "b", "e", "r">>), Cat(<<Lit(<<"n", "o", "v", "e", "m", "b", "r">>), Opt(Lit(<<"a">>))>>),
                            Lit(<<"d", "e", "c", "e", "m", "b", "e", "r">>), Cat(<<Lit(<<"d", "e", "c", "e", "m", "b", "r">>), Opt(Lit(<<"a">>))>>)>>)),
               Plus(WS), Grp(3, Rep(D, 4, 4))>>), 3, TRUE)

\* s.padStart(2, '0')
padStart2(s) == IF Len(s) < 2 THEN [j \in 1..(2 - Len(s)) |-> "0"] \o s ELSE s

\* The loop over SLOVENIAN_MONTHS: the index (from 0) of the first month whose
\* first three letters start monthName, or -1.
monthIndexOf(monthName) ==
  LET hits == {i \in 1..Len(SLOVENIAN_MONTHS) :
                 startsWith(monthName, SubSeq(SLOVENIAN_MONTHS[i], 1, 3))}
  IN IF hits = {} THEN -1 ELSE (CHOOSE i \in hits : \A j \in hits : i <= j) - 1

extractEffectiveDate(t) ==
  LET numMatch == match(numericPattern, t)
      wordMatch == match(wordPattern, t)
  IN IF numMatch # None
     THEN Some(Get(Get(numMatch).caps[3]) \o <<"-">> \o padStart2(Get(Get(numMatch).caps[2]))
                 \o <<"-">> \o padStart2(Get(Get(numMatch).caps[1])))
     ELSE IF wordMatch = None THEN None
     ELSE LET monthIndex == monthIndexOf(toLowerCase(Get(Get(wordMatch).caps[2])))
          IN IF monthIndex = -1 THEN None
             ELSE Some(Get(Get(wordMatch).caps[3]) \o <<"-">>
                         \o padStart2(NumberToString(Num(monthIndex + 1)))
                         \o <<"-">> \o padStart2(Get(Get(wordMatch).caps[1])))

\* Dates in both forms, and words around them.
DatePieces ==
  << <<"5", ".", " ", "j", "a", "n", "u", "a", "r", "j", "a", " ", "2", "0", "2", "0">>, <<"5", ".", " ", "f", "e", "b", "r", "u", "a", "r", "j", "a", " ", "2", "0", "2", "0">>, <<"5", ".", " ", "m", "a", "r", "c", "a", " ", "2", "0", "2", "0">>, <<"5", ".", " ", "a", "p", "r", "i", "l", "a", " ", "2", "0", "2", "0">>,
     <<"5", ".", " ", "m", "a", "j", "a", " ", "2", "0", "2", "0">>, <<"5", ".", " ", "j", "u", "n", "i", "j", "a", " ", "2", "0", "2", "0">>, <<"5", ".", " ", "j", "u", "l", "i", "j", "a", " ", "2", "0", "2", "0">>, <<"5", ".", " ", "a", "v", "g", "u", "s", "t", "a", " ", "2", "0", "2", "0">>,
     <<"5", ".", " ", "s", "e", "p", "t", "e", "m", "b", "r", "a", " ", "2", "0", "2", "0">>, <<"5", ".", " ", "o", "k", "t", "o", "b", "r", "a", " ", "2", "0", "2", "0">>, <<"5", ".", " ", "n", "o", "v", "e", "m", "b", "r", "a", " ", "2", "0", "2", "0">>, <<"1", "5", ".", " ", "D", "E", "C", "E", "M", "B", "R", "A", " ", "2", "0", "2", "0">>,
     <<"5", ".", " ", "m", "a", "r", "e", "c", " ", "2", "0", "2", "0">>, <<"1", "5", ".", " ", "j", "u", "n", "i", "j", " ", "2", "0", "2", "1">>, <<"1", "5", ".", "3", ".", "2", "0", "2", "1">>, <<"1", ".", " ", "7", ".", " ", "2", "0", "1", "9">>,
     <<"z", "a", ch_c, "n", "e", " ", "v", "e", "l", "j", "a", "t", "i", " ">>, <<",", " ">> >>

MaxDatePieces == 2

InitEffective ==
  /\ op = "init"
  /\ text \in Texts(DatePieces, MaxDatePieces)
  /\ IdleText

ExtractEffectiveDate ==
  /\ op = "init"
  /\ op' = "extractEffectiveDate"
  /\ result' = extractEffectiveDate(text)
  /\ UNCHANGED <<citation, format, dateArg, db, today, query, text, lookups, lastIndex, calls>>

NextEffective == ExtractEffectiveDate

SpecEffective == InitEffective /\ [][NextEffective]_vars

(***************************************************************************)
(* Properties of extractEffectiveDate                                      *)
(***************************************************************************)
\* The genitive of the twelve month names, as dates use it.
MonthGenitives ==
  << <<"j", "a", "n", "u", "a", "r", "j", "a">>, <<"f", "e", "b", "r", "u", "a", "r", "j", "a">>, <<"m", "a", "r", "c", "a">>, <<"a", "p", "r", "i", "l", "a">>, <<"m", "a", "j", "a">>, <<"j", "u", "n", "i", "j", "a">>,
     <<"j", "u", "l", "i", "j", "a">>, <<"a", "v", "g", "u", "s", "t", "a">>, <<"s", "e", "p", "t", "e", "m", "b", "r", "a">>, <<"o", "k", "t", "o", "b", "r", "a">>, <<"n", "o", "v", "e", "m", "b", "r", "a">>, <<"d", "e", "c", "e", "m", "b", "r", "a">> >>

\* 'D. <month name> YYYY' with the name of month k in either form, in any case.
MonthDate(k) ==
  RegExp(Cat(<<Grp(1, Rep(D, 1, 2)), Chr("."), Star(WS),
               Alt(<<Lit(MonthGenitives[k]), Lit(SLOVENIAN_MONTHS[k])>>),
               Plus(WS), Grp(2, Rep(D, 4, 4))>>), 2, TRUE)

\* 'D.M.YYYY'
NumericDate ==
  RegExp(Cat(<<Grp(1, Rep(D, 1, 2)), Chr("."), Star(WS), Grp(2, Rep(D, 1, 2)), Chr("."),
               Star(WS), Grp(3, Rep(D, 4, 4))>>), 3, FALSE)

TwoDigits(s) == IF Len(s) = 1 THEN <<"0">> \o s ELSE s

MonthNumbers ==
  << <<"0", "1">>, <<"0", "2">>, <<"0", "3">>, <<"0", "4">>, <<"0", "5">>, <<"0", "6">>, <<"0", "7">>, <<"0", "8">>, <<"0", "9">>, <<"1", "0">>, <<"1", "1">>, <<"1", "2">> >>

\* The date a text gives: that of its first numeric date if it has one, else
\* that of its first date with a month name, else none.
DateOf(t) ==
  LET numeric == match(NumericDate, t)
      named == SelectSeq([k \in 1..12 |-> [k |-> k, m |-> match(MonthDate(k), t)]],
                         LAMBDA x : x.m # None)
      first == named[CHOOSE i \in 1..Len(named) :
                       \A j \in 1..Len(named) : Get(named[i].m).index <= Get(named[j].m).index]
  IN IF numeric # None
     THEN Some(Get(Get(numeric).caps[3]) \o <<"-">> \o TwoDigits(Get(Get(numeric).caps[2]))
                 \o <<"-">> \o TwoDigits(Get(Get(numeric).caps[1])))
     ELSE IF named = <<>> THEN None
     ELSE Some(Get(Get(first.m).caps[2]) \o <<"-">> \o MonthNumbers[first.k]
                 \o <<"-">> \o TwoDigits(Get(Get(first.m).caps[1])))

IsIsoDate(s) ==
  /\ Len(s) = 10 /\ s[5] = "-" /\ s[8] = "-"
  /\ \A j \in {1, 2, 3, 4, 6, 7, 9, 10} : s[j] \in Digit

\* C20: extractEffectiveDate returns a string of the shape YYYY-MM-DD or null;
\* a numeric date D.M.YYYY in the text decides the result; otherwise a date
\* 'D. <month name> YYYY' with any of the twelve month names, in any case,
\* gives the month's position; null is returned only when the text has
\* neither.
C20_DateFromEitherForm ==
  op = "extractEffectiveDate" =>
    /\ result = None \/ IsIsoDate(Get(result))
    /\ result = DateOf(text)


(***************************************************************************)
(* Gazette references (isValidUradniListRef, normalizeUradniListRef)       *)
(***************************************************************************)
\* \d+\/\d+(-\w+)?
GazetteNumber ==
  Cat(<<Plus(D), Chr("/"), Plus(D), Opt(Cat(<<Chr("-"), Plus(Set(WordChar))>>))>>)

\* pattern.test(ref) with /\d+\/\d+(-\w+)?/ : no anchors.
isValidUradniListRefUnanchored(ref) == test(RegExp(Cat(<<GazetteNumber>>), 0, FALSE), ref)

\* pattern.test(ref) with /^\d+\/\d+(-\w+)?$/
isValidUradniListRef(ref) == test(RegExp(Cat(<<BOL, GazetteNumber, EOL>>), 0, FALSE), ref)

\* ref.match(/(\d+\/\d+(?:-\w+)?)/) and `RS, \u0161t. ${match[1]}`; null is None.
normalizeUradniListRef(ref) ==
  LET m == match(RegExp(Cat(<<Grp(1, GazetteNumber)>>), 1, FALSE), ref)
  IN IF m = None THEN None ELSE Some(<<"R", "S", ",", " ", ch_s, "t", ".", " ">> \o Get(Get(m).caps[1]))

\* Fragments of gazette references.
GazettePieces ==
  << <<"6", "3", "/", "1", "3">>, <<"-", "Z", "K", "P">>, <<"U", "r", ".", " ", "l", ".", " ">>, <<"a", "b", "c">>, <<"/">>, <<"7">>, <<" ">>, <<"R", "S", ",", " ", ch_s, "t", ".", " ">>, <<"\n">>, <<"-">> >>

MaxGazettePieces == 3

InitGazette ==
  /\ op = "init"
  /\ text \in Texts(GazettePieces, MaxGazettePieces)
  /\ IdleText

IsValidUradniListRef ==
  /\ op = "init"
  /\ op' = "isValidUradniListRef"
  /\ result' = isValidUradniListRef(text)
  /\ UNCHANGED <<citation, format, dateArg, db, today, query, text, lookups, lastIndex, calls>>

NormalizeUradniListRef ==
  /\ op = "init"
  /\ op' = "normalizeUradniListRef"
  /\ result' = normalizeUradniListRef(text)
  /\ UNCHANGED <<citation, format, dateArg, db, today, query, text, lookups, lastIndex, calls>>

NextGazette == IsValidUradniListRef \/ NormalizeUradniListRef

SpecGazette == InitGazette /\ [][NextGazette]_vars

(***************************************************************************)
(* Properties of the gazette reference functions                           *)
(***************************************************************************)
\* s has the shape <digits>/<digits>[-<word>].
HasGazetteShape(s) ==
  \E i \in 2..(Len(s) - 1) :
    /\ s[i] = "/" /\ \A k \in 1..(i - 1) : s[k] \in Digit
    /\ \/ \A k \in (i + 1)..Len(s) : s[k] \in Digit
       \/ \E j \in (i + 2)..(Len(s) - 1) :
            /\ s[j] = "-" /\ \A k \in (i + 1)..(j - 1) : s[k] \in Digit
            /\ \A k \in (j + 1)..Len(s) : s[k] \in WordChar

\* The substrings of s that have the shape, as pairs of first and last index.
GazetteSpans(s) ==
  {p \in (1..Len(s)) \X (1..Len(s)) : p[1] <= p[2] /\ HasGazetteShape(SubSeq(s, p[1], p[2]))}

\* C21: normalizeUradniListRef returns null exactly when its argument has no
\* substring of the shape <digits>/<digits>[-<word>]; otherwise it returns
\* 'RS, \u0161t. ' and the first such substring (the longest where it starts),
\* which isValidUradniListRef accepts, and the returned string normalizes to
\* itself.  isValidUradniListRef is true exactly for the strings of the shape.
C21_GazetteRefNormalForm ==
  /\ op = "isValidUradniListRef" => (result <=> HasGazetteShape(text))
  /\ op = "normalizeUradniListRef" =>
       LET spans == GazetteSpans(text)
       IN /\ (result = None) <=> (spans = {})
          /\ result # None =>
               \E p \in spans :
                 /\ \A q \in spans : p[1] < q[1] \/ (p[1] = q[1] /\ q[2] <= p[2])
                 /\ Get(result) = <<"R", "S", ",", " ", ch_s, "t", ".", " ">> \o SubSeq(text, p[1], p[2])
                 /\ isValidUradniListRef(SubSeq(text, p[1], p[2]))
                 /\ normalizeUradniListRef(Get(result)) = result

\* The reference of 'Ur. l. 63/13-ZKP' in canonical form.
C21_Witness ==
  /\ op = "normalizeUradniListRef"
  /\ text = <<"U", "r", ".", " ", "l", ".", " ", "6", "3", "/", "1", "3", "-", "Z", "K", "P">>
  /\ result = Some(<<"R", "S", ",", " ", ch_s, "t", ".", " ", "6", "3", "/", "1", "3", "-", "Z", "K", "P">>)


(***************************************************************************)
(* Repeal dates in descriptions (extractRepealDateFromDescription)         *)
(***************************************************************************)
\* (\d{2})\.(\d{2})\.(\d{4})
DayMonthYear ==
  Cat(<<Grp(1, Rep(D, 2, 2)), Chr("."), Grp(2, Rep(D, 2, 2)), Chr("."), Grp(3, Rep(D, 4, 4))>>)

\* /Prenehal\s+veljati\s+(\d{2})\.(\d{2})\.(\d{4})/i
PrenehalVeljati ==
  RegExp(Cat(<<Lit(<<"P", "r", "e", "n", "e", "h", "a", "l">>), Plus(WS), Lit(<<"v", "e", "l", "j", "a", "t", "i">>), Plus(WS), DayMonthYear>>), 3, TRUE)

\* /Razveljavljen[a]?\s+(\d{2})\.(\d{2})\.(\d{4})/i
RazveljavljenDne ==
  RegExp(Cat(<<Lit(<<"R", "a", "z", "v", "e", "l", "j", "a", "v", "l", "j", "e", "n">>), Opt(Set({"a"})), Plus(WS), DayMonthYear>>), 3, TRUE)

\* /(\d{4})-(\d{2})-(\d{2})/
IsoDateInText ==
  RegExp(Cat(<<Grp(1, Rep(D, 4, 4)), Chr("-"), Grp(2, Rep(D, 2, 2)), Chr("-"),
               Grp(3, Rep(D, 2, 2))>>), 3, FALSE)

\* /^\d{4}-\d{2}-\d{2}$/
IsoDateWhole ==
  RegExp(Cat(<<BOL, Rep(D, 4, 4), Chr("-"), Rep(D, 2, 2), Chr("-"), Rep(D, 2, 2), EOL>>), 0, FALSE)

\* The ISO date is looked for before the two phrases.
repealMatchIsoFirst(description) ==
  LET first == match(IsoDateInText, description)
      second == match(PrenehalVeljati, description)
  IN IF first # None THEN first
     ELSE IF second # None THEN second
     ELSE match(RazveljavljenDne, description)

\* description.match(...) || description.match(...) || description.match(...)
repealMatch(description) ==
  LET first == match(PrenehalVeljati, description)
      second == match(RazveljavljenDne, description)
  IN IF first # None THEN first
     ELSE IF second # None THEN second
     ELSE match(IsoDateInText, description)

\* description is None for null; the result is None for undefined.
extractRepealDateFromDescription(description) ==
  IF description = None \/ Get(description) = <<>> THEN None
  ELSE LET m == repealMatch(Get(description))
       IN IF m = None THEN None
          ELSE IF test(IsoDateWhole, Get(m).text) THEN Some(Get(m).text)
          ELSE Some(Get(Get(m).caps[3]) \o <<"-">> \o Get(Get(m).caps[2]) \o <<"-">>
                      \o Get(Get(m).caps[1]))

\* Fragments of document descriptions.
RepealPieces ==
  << <<"P", "r", "e", "n", "e", "h", "a", "l", " ", "v", "e", "l", "j", "a", "t", "i", " ", "0", "3", ".", "0", "4", ".", "2", "0", "2", "1">>, <<"R", "a", "z", "v", "e", "l", "j", "a", "v", "l", "j", "e", "n", "a", " ", "0", "1", ".", "0", "2", ".", "2", "0", "2", "0">>,
     <<"r", "a", "z", "v", "e", "l", "j", "a", "v", "l", "j", "e", "n", " ", " ", "3", "1", ".", "0", "2", ".", "2", "0", "2", "0">>, <<"2", "0", "1", "9", "-", "0", "5", "-", "0", "6">>, <<"P", "r", "e", "n", "e", "h", "a", "l", " ", "v", "e", "l", "j", "a", "t", "i", " ", "3", ".", "4", ".", "2", "0", "2", "1">>,
     <<".", " ">>, <<"Z", "a", "k", "o", "n", " ">> >>

MaxRepealPieces == 3

InitRepeal ==
  /\ op = "init"
  /\ \E d \in {None} \cup {Some(t) : t \in Texts(RepealPieces, MaxRepealPieces)} :
       query = [description |-> d]
  /\ citation = <<>> /\ format = "none" /\ dateArg = None /\ db = EmptyStore
  /\ today = <<>> /\ text = <<>> /\ result = <<>> /\ lookups = <<>>
  /\ lastIndex = NoLastIndex /\ calls = 0

ExtractRepealDateFromDescription ==
  /\ op = "init"
  /\ op' = "extractRepealDateFromDescription"
  /\ result' = extractRepealDateFromDescription(query.description)
  /\ UNCHANGED <<citation, format, dateArg, db, today, query, text, lookups, lastIndex, calls>>

NextRepeal == ExtractRepealDateFromDescription

SpecRepeal == InitRepeal /\ [][NextRepeal]_vars

(***************************************************************************)
(* Properties of extractRepealDateFromDescription                          *)
(***************************************************************************)
\* The candidate dates of a description: for each of the three forms its
\* first occurrence, with the place where it starts and the date it gives.
RepealCandidates(d) ==
  LET phrase(rx) == LET m == match(rx, d)
                    IN IF m = None THEN <<>>
                       ELSE <<[index |-> Get(m).index,
                               date |-> Get(Get(m).caps[3]) \o <<"-">> \o Get(Get(m).caps[2])
                                          \o <<"-">> \o Get(Get(m).caps[1])]>>
      iso == LET m == match(IsoDateInText, d)
             IN IF m = None THEN <<>> ELSE <<[index |-> Get(m).index, date |-> Get(m).text]>>
  IN phrase(PrenehalVeljati) \o phrase(RazveljavljenDne) \o iso

\* C22 as stated: undefined exactly when the description is absent, empty or
\* has no candidate; otherwise the candidate that starts first in the text is
\* returned as YYYY-MM-DD.
C22_FirstInText ==
  op = "extractRepealDateFromDescription" =>
    LET cands == IF query.description = None THEN <<>>
                 ELSE RepealCandidates(Get(query.description))
    IN /\ (result = None) <=> (cands = <<>>)
       /\ result # None =>
            \E j \in 1..Len(cands) :
              /\ \A i \in 1..Len(cands) : cands[j].index <= cands[i].index
              /\ result = Some(cands[j].date)

\* C22: extractRepealDateFromDescription returns undefined exactly when the
\* description is absent, empty or has none of the three forms; otherwise the
\* forms are tried in the order 'Prenehal veljati', 'Razveljavljen[a]', ISO
\* date, and the first occurrence of the first form present is returned as
\* YYYY-MM-DD, wherever the other forms stand and whether or not it is a real
\* date.
C22_FirstFormPresent ==
  op = "extractRepealDateFromDescription" =>
    LET cands == IF query.description = None THEN <<>>
                 ELSE RepealCandidates(Get(query.description))
    IN /\ (result = None) <=> (cands = <<>>)
       /\ result # None => result = Some(cands[1].date)

\* A description with 'razveljavljen' and a date that is no calendar date in
\* front of 'Prenehal veljati': the later phrase decides.
C22_Witness ==
  /\ op = "extractRepealDateFromDescription"
  /\ query.description = Some(<<"r", "a", "z", "v", "e", "l", "j", "a", "v", "l", "j", "e", "n", " ", " ", "3", "1", ".", "0", "2", ".", "2", "0", "2", "0", ".", " ", "P", "r", "e", "n", "e", "h", "a", "l", " ", "v", "e", "l", "j", "a", "t", "i", " ", "0", "3", ".", "0", "4", ".", "2", "0", "2", "1">>)
  /\ result = Some(<<"2", "0", "2", "1", "-", "0", "4", "-", "0", "3">>)


\* The cross-references of type amended_by that target the queried provision.
AmendingRows ==
  {x \in db.cross_references :
     /\ x.ref_type = "amended_by"
     /\ x.target_document_id = query.document_id
     /\ x.target_provision_ref = Some(query.provision_ref)}

\* a is a list with exactly one record for each of those cross-references,
\* naming its source document, with amendment_date null.
ListsAmendingRows(a) ==
  /\ Len(a) = Cardinality(AmendingRows)
  /\ \A j \in 1..Len(a) : a[j].amendment_date = None /\ a[j].ref_type = "amended_by"
  /\ \A src \in {x.source_document_id : x \in AmendingRows} :
       Cardinality({j \in 1..Len(a) : a[j].source_document_id = src})
         = Cardinality({x \in AmendingRows : x.source_document_id = src})

\* C23: a result of getProvisionAtDate carries the amendment records of the
\* queried provision, each with amendment_date null, whenever
\* include_amendments is set, whatever its status, and has no amendments
\* field when it is not set.
C23_AmendmentsWheneverAsked ==
  (op = "getProvisionAtDate" /\ result.kind = "return") =>
    IF query.include_amendments
    THEN IsSome(result.value.amendments) /\ ListsAmendingRows(Get(result.value.amendments))
    ELSE result.value.amendments = None


\* Queries for known and unknown documents and provisions, with dates of
\* every kind: absent, empty, blank, of another shape, no calendar date,
\* padded, and plain.
UNKNOWN_ID == <<"z", "a", "k", "o", "n", "-", "k", "i", "-", "g", "a", "-", "n", "i">>
AnyQueryDates ==
  QueryDates \cup {Some(<<" ", " ">>), Some(<<"1", ".", "1", ".", "2", "0", "2", "0">>), Some(<<"2", "0", "2", "0", "-", "1", "-", "1">>)}

InitResolveAny ==
  /\ op = "init"
  /\ db \in VersionStores
  /\ today = <<"2", "0", "2", "4", "-", "0", "1", "-", "0", "1">>
  /\ query \in [document_id : {ZKP_ID, UNKNOWN_ID}, provision_ref : { <<"6">>, <<"9", "9">> },
                date : AnyQueryDates, include_amendments : BOOLEAN]
  /\ IdleResolve

SpecResolveAny == InitResolveAny /\ [][NextResolve]_vars

\* C24: getProvisionAtDate throws exactly when its date is absent, blank, or,
\* once surrounding white space is removed, not of the shape YYYY-MM-DD or not
\* a real calendar date; every other call, whether or not the document, the
\* provision or a version for the date exists, returns a result whose status
\* is current, historical, future or not_found.
C24_ThrowsOnlyForBadDate ==
  op = "getProvisionAtDate" =>
    /\ result.kind \in {"throw", "return"}
    /\ (result.kind = "throw") <=>
         \/ ~IsSome(query.date)
         \/ Stripped(Get(query.date)) = <<>>
         \/ ~IsRealDate(Stripped(Get(query.date)))
    /\ result.kind = "return" =>
         result.value.status \in {"current", "historical", "future", "not_found"}

\* A well-formed query for a document the store does not know: not_found is
\* returned, nothing is thrown.
C24_Witness ==
  /\ op = "getProvisionAtDate"
  /\ query.document_id = UNKNOWN_ID /\ query.date = Some(<<"2", "0", "1", "4", "-", "1", "2", "-", "3", "1">>)
  /\ db.legal_provision_versions # {}
  /\ result.kind = "return" /\ result.value.status = "not_found"


\* ---------------------------------------------------------------------------
\* The database builder: insertAll of scripts/build-db.ts, the transaction
\* that fills the tables of a fresh database from the seed files. A row has
\* the columns its statement binds and, where the table has one, its rowid;
\* the columns filled by a time-dependent DEFAULT are left out.
\* ---------------------------------------------------------------------------

\* The tables of SCHEMA that insertAll writes, empty after runSchema.
EmptyTables ==
  [legal_documents |-> {}, legal_provisions |-> {}, legal_provision_versions |-> {},
   cross_references |-> {}, case_law |-> {}, preparatory_works |-> {}, definitions |-> {},
   eu_documents |-> {}, eu_references |-> {}]

\* The state of the transaction: the tables, the three Sets of inserted keys,
\* the next rowid of legal_provision_versions, the sqlite_sequence of
\* eu_references, and the errors the statement that failed may have thrown,
\* if one did.
BuildStart ==
  [tables |-> EmptyTables, insertedDocIds |-> {}, insertedProvisionKeys |-> {},
   insertedEuDocIds |-> {}, nextId |-> 1, euReferencesSeq |-> 0, failed |-> FALSE,
   errors |-> {}]

\* a ?? b on an optional value: a unless it is null or undefined.
Nullish(a, b) == IF IsSome(a) THEN Get(a) ELSE b

\* The rowid an INSERT gives a row of a table from which nothing was deleted.
NextRowid(table) == Cardinality(table) + 1

\* A REFERENCES legal_documents(id) column holds: foreign_keys = ON, and no
\* conflict clause covers a foreign key.
DocumentIds(b) == {d.id : d \in b.tables.legal_documents}
ForeignKeyFailed(b) == [b EXCEPT !.failed = TRUE, !.errors = {"FOREIGN KEY constraint failed"}]

\* insertDoc.run: INSERT OR IGNORE skips a row whose id is taken or whose type
\* or status fails its CHECK.
insertDoc(b, row) ==
  IF \/ row.id \in DocumentIds(b)
     \/ row.type \notin {"statute", "constitutional", "parliamentary", "regulation", "decree", "case_law"}
     \/ row.status \notin {"in_force", "amended", "repealed", "not_yet_in_force"}
  THEN b
  ELSE [b EXCEPT !.tables.legal_documents = @ \cup {row}]

\* The row insertDoc.run binds for an entry of seed.documents.
DocumentRow(doc) ==
  [id |-> doc.id, type |-> doc.type, title |-> doc.title, title_en |-> doc.title_en,
   short_name |-> doc.short_name, status |-> Nullish(doc.status, "in_force"),
   issued_date |-> doc.issued_date, in_force_date |-> doc.in_force_date, url |-> doc.url,
   description |-> doc.description]

\* for (const doc of seed.documents) if (!insertedDocIds.has(doc.id)) insertDoc.run(...)
RECURSIVE insertDocuments(_, _)
insertDocuments(b, documents) ==
  IF documents = <<>> \/ b.failed THEN b
  ELSE LET doc == Head(documents)
           after == IF doc.id \in b.insertedDocIds THEN b
                    ELSE [insertDoc(b, DocumentRow(doc))
                            EXCEPT !.insertedDocIds = @ \cup {doc.id}]
       IN insertDocuments(after, Tail(documents))

\* The row insertEuDoc.run binds for an entry of seed.eu_documents.
EuDocumentRow(euDoc) ==
  [id |-> euDoc.id, type |-> euDoc.type, year |-> euDoc.year, number |-> euDoc.number,
   community |-> euDoc.community, celex_number |-> euDoc.celex_number, title |-> euDoc.title,
   title_sl |-> euDoc.title_sl, short_name |-> euDoc.short_name,
   adoption_date |-> euDoc.adoption_date,
   entry_into_force_date |-> euDoc.entry_into_force_date,
   in_force |-> Nullish(euDoc.in_force, 1), amended_by |-> euDoc.amended_by,
   repeals |-> euDoc.repeals, url_eur_lex |-> euDoc.url_eur_lex,
   description |-> euDoc.description]

\* for (const euDoc of seed.eu_documents) if (!insertedEuDocIds.has(euDoc.id))
\* insertEuDoc.run(...): INSERT OR IGNORE, id is the primary key, type and
\* community have a CHECK (a NULL community passes it).
RECURSIVE insertEuDocuments(_, _)
insertEuDocuments(b, euDocuments) ==
  IF euDocuments = <<>> \/ b.failed THEN b
  ELSE LET euDoc == Head(euDocuments)
           ignored == \/ euDoc.id \in {d.id : d \in b.tables.eu_documents}
                      \/ euDoc.type \notin {"directive", "regulation", "decision"}
                      \/ /\ IsSome(euDoc.community)
                         /\ Get(euDoc.community) \notin {"EU", "EG", "EEG", "Euratom"}
           after == IF euDoc.id \in b.insertedEuDocIds THEN b
                    ELSE [b EXCEPT !.tables.eu_documents =
                                      IF ignored THEN @ ELSE @ \cup {EuDocumentRow(euDoc)},
                                   !.insertedEuDocIds = @ \cup {euDoc.id}]
       IN insertEuDocuments(after, Tail(euDocuments))

\* const key = `${prov.document_id}:${prov.provision_ref}`
provisionKey(prov) == prov.document_id \o <<":">> \o prov.provision_ref

\* The row insertProv.run binds for an entry of seed.provisions.
ProvisionRow(id, prov) ==
  [id |-> id, document_id |-> prov.document_id, provision_ref |-> prov.provision_ref,
   chapter |-> prov.chapter, section |-> prov.section, article |-> prov.article,
   title |-> prov.title, content |-> prov.content, metadata |-> prov.metadata]

\* for (const prov of seed.provisions) if (!insertedProvisionKeys.has(key)) insertProv.run(...)
\* INSERT OR IGNORE with UNIQUE(document_id, provision_ref); document_id
\* REFERENCES legal_documents(id).
RECURSIVE insertProvisions(_, _)
insertProvisions(b, provisions) ==
  IF provisions = <<>> \/ b.failed THEN b
  ELSE LET prov == Head(provisions)
           ignored == \E r \in b.tables.legal_provisions :
                        r.document_id = prov.document_id /\ r.provision_ref = prov.provision_ref
           after == IF provisionKey(prov) \in b.insertedProvisionKeys THEN b
                    ELSE IF ~ignored /\ prov.document_id \notin DocumentIds(b)
                    THEN ForeignKeyFailed(b)
                    ELSE [b EXCEPT !.tables.legal_provisions =
                                      IF ignored THEN @
                                      ELSE @ \cup {ProvisionRow(NextRowid(@), prov)},
                                   !.insertedProvisionKeys = @ \cup {provisionKey(prov)}]
       IN insertProvisions(after, Tail(provisions))

\* document_id: ver.document_id ?? seed.documents?.[0]?.id : the id of the
\* entry, else that of the first document of the same seed file, else undefined.
versionDocumentId(ver, documents) ==
  IF IsSome(ver.document_id) THEN ver.document_id
  ELSE IF documents # <<>> THEN Some(documents[1].id)
  ELSE None

\* The row insertProvVer.run binds for one entry of the version source.
VersionRow(id, ver, documentId) ==
  [id |-> id, document_id |-> documentId, provision_ref |-> ver.provision_ref,
   chapter |-> ver.chapter, section |-> ver.section, article |-> ver.article,
   title |-> ver.title, content |-> ver.content, metadata |-> ver.metadata,
   valid_from |-> ver.valid_from, valid_to |-> ver.valid_to]

\* What binding undefined to document_id makes run() throw: the binding is
\* refused, or NULL is bound and the column's NOT NULL fails.
UndefinedDocumentId(b) ==
  [b EXCEPT !.failed = TRUE,
            !.errors = {"SQLite3 can only bind numbers, strings, bigints, buffers, and null",
                        "NOT NULL constraint failed: legal_provision_versions.document_id"}]

\* for (const ver of versionSource) insertProvVer.run(...): a plain INSERT, the
\* table has no uniqueness constraint, only the foreign key on document_id.
RECURSIVE insertVersions(_, _, _)
insertVersions(b, versionSource, documents) ==
  IF versionSource = <<>> \/ b.failed THEN b
  ELSE LET ver == Head(versionSource)
           documentId == versionDocumentId(ver, documents)
           after == IF ~IsSome(documentId) THEN UndefinedDocumentId(b)
                    ELSE IF Get(documentId) \notin DocumentIds(b)
                    THEN ForeignKeyFailed(b)
                    ELSE [b EXCEPT !.tables.legal_provision_versions =
                                      @ \cup {VersionRow(b.nextId, ver, Get(documentId))},
                                   !.nextId = @ + 1]
       IN insertVersions(after, Tail(versionSource), documents)

\* seed.provision_versions ?? seed.provisions; an entry of seed.provisions
\* gives its document_id.
versionSourceOf(seed) ==
  IF IsSome(seed.provision_versions) THEN seed.provision_versions
  ELSE IF IsSome(seed.provisions)
  THEN Some([j \in 1..Len(Get(seed.provisions)) |->
               [Get(seed.provisions)[j] EXCEPT !.document_id = Some(@)]])
  ELSE None

\* The row insertCase.run binds for an entry of seed.case_law.
CaseLawRow(id, cl) ==
  [id |-> id, document_id |-> cl.document_id, court |-> cl.court, ecli |-> cl.ecli,
   case_number |-> cl.case_number, decision_date |-> cl.decision_date,
   procedure_type |-> cl.procedure_type, legal_domain |-> cl.legal_domain,
   summary |-> cl.summary, keywords |-> cl.keywords]

\* for (const cl of seed.case_law) insertCase.run(...): INSERT OR IGNORE with
\* document_id UNIQUE and ecli UNIQUE (a NULL ecli conflicts with nothing);
\* document_id REFERENCES legal_documents(id).
RECURSIVE insertCaseLaw(_, _)
insertCaseLaw(b, caseLaw) ==
  IF caseLaw = <<>> \/ b.failed THEN b
  ELSE LET cl == Head(caseLaw)
           ignored == \E r \in b.tables.case_law :
                        \/ r.document_id = cl.document_id
                        \/ IsSome(cl.ecli) /\ r.ecli = cl.ecli
           after == IF ignored THEN b
                    ELSE IF cl.document_id \notin DocumentIds(b) THEN ForeignKeyFailed(b)
                    ELSE [b EXCEPT !.tables.case_law = @ \cup {CaseLawRow(NextRowid(@), cl)}]
       IN insertCaseLaw(after, Tail(caseLaw))

\* The document insertDoc.run binds for a statute that no seed has named yet.
StatuteRow(statuteId) ==
  [id |-> statuteId, type |-> "statute", title |-> statuteId, title_en |-> None,
   short_name |-> None, status |-> "in_force", issued_date |-> None, in_force_date |-> None,
   url |-> None, description |-> None]

\* The row insertPrep.run binds for an entry of seed.preparatory_works.
PreparatoryWorkRow(id, pw) ==
  [id |-> id, statute_id |-> pw.statute_id, prep_document_id |-> pw.prep_document_id,
   parliamentary_ref |-> pw.parliamentary_ref, document_type |-> pw.document_type,
   title |-> pw.title, summary |-> pw.summary]

\* for (const pw of seed.preparatory_works): a statute that no seed has named
\* yet is inserted as a document titled by its id, then insertPrep.run(...), a
\* plain INSERT whose statute_id and prep_document_id reference legal_documents.
RECURSIVE insertPreparatoryWorks(_, _)
insertPreparatoryWorks(b, preparatoryWorks) ==
  IF preparatoryWorks = <<>> \/ b.failed THEN b
  ELSE LET pw == Head(preparatoryWorks)
           b1 == IF pw.statute_id # <<>> /\ pw.statute_id \notin b.insertedDocIds
                 THEN [insertDoc(b, StatuteRow(pw.statute_id))
                         EXCEPT !.insertedDocIds = @ \cup {pw.statute_id}]
                 ELSE b
           after == IF pw.statute_id \notin DocumentIds(b1) \/ pw.prep_document_id \notin DocumentIds(b1)
                    THEN ForeignKeyFailed(b1)
                    ELSE [b1 EXCEPT !.tables.preparatory_works =
                                       @ \cup {PreparatoryWorkRow(NextRowid(@), pw)}]
       IN insertPreparatoryWorks(after, Tail(preparatoryWorks))

\* The row insertDef.run binds for an entry of seed.definitions.
DefinitionRow(id, def) ==
  [id |-> id, document_id |-> def.document_id, term |-> def.term, term_en |-> def.term_en,
   definition |-> def.definition, source_provision |-> def.source_provision]

\* for (const def of seed.definitions) insertDef.run(...): INSERT OR IGNORE with
\* UNIQUE(document_id, term); document_id REFERENCES legal_documents(id).
RECURSIVE insertDefinitions(_, _)
insertDefinitions(b, definitions) ==
  IF definitions = <<>> \/ b.failed THEN b
  ELSE LET def == Head(definitions)
           ignored == \E r \in b.tables.definitions :
                        r.document_id = def.document_id /\ r.term = def.term
           after == IF ignored THEN b
                    ELSE IF def.document_id \notin DocumentIds(b) THEN ForeignKeyFailed(b)
                    ELSE [b EXCEPT !.tables.definitions = @ \cup {DefinitionRow(NextRowid(@), def)}]
       IN insertDefinitions(after, Tail(definitions))

\* The row insertXref.run binds: ref_type: xr.ref_type ?? 'references'.
XrefRow(id, xr) ==
  [id |-> id, source_document_id |-> xr.source_document_id,
   source_provision_ref |-> xr.source_provision_ref,
   target_document_id |-> xr.target_document_id,
   target_provision_ref |-> xr.target_provision_ref,
   ref_type |-> Nullish(xr.ref_type, "references")]

\* for (const xr of seed.cross_references) insertXref.run(...): a plain INSERT;
\* the CHECK on ref_type fails on the row, the foreign keys on the source and
\* the target document at the end of the statement. No two rows conflict.
RECURSIVE insertCrossReferences(_, _)
insertCrossReferences(b, crossReferences) ==
  IF crossReferences = <<>> \/ b.failed THEN b
  ELSE LET row == XrefRow(NextRowid(b.tables.cross_references), Head(crossReferences))
           after == IF row.ref_type \notin {"references", "amended_by", "implements", "see_also"}
                    THEN [b EXCEPT !.failed = TRUE, !.errors = {"CHECK constraint failed: ref_type IN ('references', 'amended_by', 'implements', 'see_also')"}]
                    ELSE IF \/ row.source_document_id \notin DocumentIds(b)
                            \/ row.target_document_id \notin DocumentIds(b)
                    THEN ForeignKeyFailed(b)
                    ELSE [b EXCEPT !.tables.cross_references = @ \cup {row}]
       IN insertCrossReferences(after, Tail(crossReferences))

\* The row insertEuRef.run binds for an entry of seed.eu_references.
EuReferenceRow(id, ref) ==
  [id |-> id, source_type |-> ref.source_type, source_id |-> ref.source_id,
   document_id |-> ref.document_id, provision_id |-> ref.provision_id,
   eu_document_id |-> ref.eu_document_id, eu_article |-> ref.eu_article,
   reference_type |-> ref.reference_type, reference_context |-> ref.reference_context,
   full_citation |-> ref.full_citation,
   is_primary_implementation |-> Nullish(ref.is_primary_implementation, 0),
   implementation_status |-> ref.implementation_status]

\* The CHECKs of eu_references on source_type, reference_type and
\* implementation_status (a NULL implementation_status passes its CHECK).
euReferenceChecksFail(ref) ==
  \/ ref.source_type \notin {"provision", "document", "case_law"}
  \/ ref.reference_type \notin
       {"implements", "supplements", "applies", "references", "complies_with",
        "derogates_from", "amended_by", "repealed_by", "cites_article"}
  \/ /\ IsSome(ref.implementation_status)
     /\ Get(ref.implementation_status) \notin {"complete", "partial", "pending", "unknown"}

\* for (const ref of seed.eu_references) insertEuRef.run(...): INSERT OR IGNORE
\* with UNIQUE(source_id, eu_document_id, eu_article), in which a NULL
\* eu_article conflicts with nothing, and the CHECKs; document_id, provision_id
\* (when given) and eu_document_id are foreign keys. id is AUTOINCREMENT: a
\* skipped row uses up its id too.
RECURSIVE insertEuReferences(_, _)
insertEuReferences(b, euReferences) ==
  IF euReferences = <<>> \/ b.failed THEN b
  ELSE LET ref == Head(euReferences)
           ignored == \/ euReferenceChecksFail(ref)
                      \/ \E r \in b.tables.eu_references :
                           /\ r.source_id = ref.source_id
                           /\ r.eu_document_id = ref.eu_document_id
                           /\ IsSome(ref.eu_article) /\ r.eu_article = ref.eu_article
           after == IF ignored THEN [b EXCEPT !.euReferencesSeq = @ + 1]
                    ELSE IF \/ ref.document_id \notin DocumentIds(b)
                            \/ ref.eu_document_id \notin {d.id : d \in b.tables.eu_documents}
                            \/ /\ IsSome(ref.provision_id)
                               /\ Get(ref.provision_id) \notin {p.id : p \in b.tables.legal_provisions}
                    THEN ForeignKeyFailed(b)
                    ELSE [b EXCEPT !.euReferencesSeq = @ + 1,
                                   !.tables.eu_references =
                                      @ \cup {EuReferenceRow(b.euReferencesSeq + 1, ref)}]
       IN insertEuReferences(after, Tail(euReferences))

\* if (seed.<part>) for (...) ...: a part the seed file does not have is skipped.
insertDocumentParts(b, seed) ==
  insertEuDocuments(insertDocuments(b, seed.documents), seed.eu_documents)

insertProvisionParts(b, seed, versionSource) ==
  LET b2 == IF IsSome(seed.provisions) THEN insertProvisions(b, Get(seed.provisions)) ELSE b
  IN IF IsSome(versionSource) THEN insertVersions(b2, Get(versionSource), seed.documents) ELSE b2

insertOtherParts(b, seed) ==
  insertEuReferences(
    insertCrossReferences(
      insertDefinitions(
        insertPreparatoryWorks(insertCaseLaw(b, seed.case_law), seed.preparatory_works),
        seed.definitions),
      seed.cross_references),
    seed.eu_references)

\* One iteration of for (const seed of seeds).
insertSeed(b, seed) ==
  insertOtherParts(insertProvisionParts(insertDocumentParts(b, seed), seed, versionSourceOf(seed)),
                   seed)

RECURSIVE insertSeeds(_, _)
insertSeeds(b, seeds) ==
  IF seeds = <<>> \/ b.failed THEN b
  ELSE insertSeeds(insertSeed(b, Head(seeds)), Tail(seeds))

\* db.transaction(...)(): the tables after the transaction, rolled back as a
\* whole when a statement failed, and what the call may return or throw.
insertAllOf(b) ==
  IF b.failed THEN [tables |-> EmptyTables, outcomes |-> {Thrown(e) : e \in b.errors}]
  ELSE [tables |-> b.tables,
        outcomes |-> {Returned(Cardinality(b.tables.legal_provision_versions))}]

insertAll(seeds) == insertAllOf(insertSeeds(BuildStart, seeds))

\* Seed entries for provisions and provision versions.
SeedIntervals ==
  { <<None, None>>, <<None, Some(<<"2", "0", "1", "5", "-", "0", "6", "-", "0", "1">>)>>, <<Some(<<"2", "0", "1", "5", "-", "0", "6", "-", "0", "1">>), None>>,
    <<Some(<<"2", "0", "1", "0", "-", "0", "1", "-", "0", "1">>), Some(<<"2", "0", "1", "5", "-", "0", "6", "-", "0", "1">>)>> }

\* An entry of seed.provisions: the optional fields absent.
ProvisionSeed(documentId, ref) ==
  [document_id |-> documentId, provision_ref |-> ref, chapter |-> None, section |-> None,
   article |-> ref, title |-> None, content |-> <<"b", "e", "s", "e", "d", "i", "l", "o">>, metadata |-> None,
   valid_from |-> None, valid_to |-> None]

\* The same entry with a chapter, a section and a title.
TitledProvisionSeed(documentId, ref) ==
  [ProvisionSeed(documentId, ref) EXCEPT
     !.chapter = Some(<<"I", ".", " ", "p", "o", "g", "l", "a", "v", "j", "e">>), !.section = Some(<<"1", ".", " ", "o", "d", "d", "e", "l", "e", "k">>),
     !.title = Some(<<"N", "a", "s", "l", "o", "v">>)]

ProvisionSeeds ==
  {[ProvisionSeed(ZKP_ID, <<"6">>) EXCEPT !.valid_from = i[1], !.valid_to = i[2]] : i \in SeedIntervals}
  \cup {ProvisionSeed(ZKP_ID, <<"7">>), TitledProvisionSeed(ZKP_ID, <<"6">>)}

\* Entries of seed.provision_versions: document_id is given or left to the
\* first document of the file.
VersionSeeds ==
  {[p EXCEPT !.document_id = Some(@)] : p \in ProvisionSeeds}
  \cup {[ProvisionSeed(None, <<"6">>) EXCEPT !.valid_to = Some(<<"2", "0", "1", "5", "-", "0", "6", "-", "0", "1">>)]}

ProvisionLists == {None} \cup {Some(<<p>>) : p \in ProvisionSeeds}
VersionLists == {None} \cup {Some(<<v>>) : v \in VersionSeeds}

\* Document entries: the statute, the statute that amends it, and an entry
\* whose type is not one of the schema.
DocumentSeed(id, type) ==
  [id |-> id, type |-> type, title |-> id, title_en |-> None, short_name |-> None,
   status |-> None, issued_date |-> None, in_force_date |-> None, url |-> None,
   description |-> None]
DocumentLists ==
  { <<>>, <<DocumentSeed(ZKP_ID, "statute")>>,
    <<[DocumentSeed(ZKP_ID, "statute") EXCEPT !.status = Some("amended"),
                                              !.short_name = Some(<<"Z", "K", "P">>)],
      DocumentSeed(AMENDING_ID, "statute")>>,
    <<DocumentSeed(ZKP_ID, "zakon")>> }

\* Entries for the other tables.
EU_ID == <<"d", "i", "r", "e", "c", "t", "i", "v", "e", ":", "1", "9", "9", "5", "/", "4", "6">>
CaseLawSeed(ecli) ==
  [document_id |-> ZKP_ID, court |-> <<"V", "S", "R", "S">>, ecli |-> ecli, case_number |-> None,
   decision_date |-> None, procedure_type |-> None, legal_domain |-> None,
   summary |-> None, keywords |-> None]
PreparatoryWorkSeed(statute, prep) ==
  [statute_id |-> statute, prep_document_id |-> prep, parliamentary_ref |-> None,
   document_type |-> None, title |-> None, summary |-> None]
DefinitionSeed(term) ==
  [document_id |-> ZKP_ID, term |-> term, term_en |-> None,
   definition |-> <<"p", "o", "m", "e", "n">>, source_provision |-> None]
CrossReferenceSeed(ref, type) ==
  [source_document_id |-> AMENDING_ID, source_provision_ref |-> Some(ref),
   target_document_id |-> ZKP_ID, target_provision_ref |-> Some(<<"6">>), ref_type |-> type]
EUDocumentSeed(type, community) ==
  [id |-> EU_ID, type |-> type, year |-> 1995, number |-> 46, community |-> community,
   celex_number |-> None, title |-> None, title_sl |-> None, short_name |-> None,
   adoption_date |-> None, entry_into_force_date |-> None, in_force |-> None,
   amended_by |-> None, repeals |-> None, url_eur_lex |-> None, description |-> None]
EUReferenceSeed(provision, article) ==
  [source_type |-> "document", source_id |-> ZKP_ID, document_id |-> ZKP_ID,
   provision_id |-> provision, eu_document_id |-> EU_ID, eu_article |-> article,
   reference_type |-> "implements", reference_context |-> None, full_citation |-> None,
   is_primary_implementation |-> None, implementation_status |-> None]

NoOtherParts ==
  [eu_documents |-> <<>>, case_law |-> <<>>, preparatory_works |-> <<>>, definitions |-> <<>>,
   cross_references |-> <<>>, eu_references |-> <<>>]

\* What a seed file may hold for the other tables (an absent part and an empty
\* one are both skipped).
OtherParts ==
  { [NoOtherParts EXCEPT !.case_law = <<CaseLawSeed(Some(ECLI_ID)), CaseLawSeed(None)>>],
    [NoOtherParts EXCEPT !.preparatory_works = <<PreparatoryWorkSeed(ZKP_ID, ZKP_ID)>>],
    [NoOtherParts EXCEPT !.preparatory_works = <<PreparatoryWorkSeed(AMENDING_ID, ZKP_ID),
                                                 PreparatoryWorkSeed(AMENDING_ID, ZKP_ID)>>],
    [NoOtherParts EXCEPT !.preparatory_works = <<PreparatoryWorkSeed(<<>>, ZKP_ID)>>],
    [NoOtherParts EXCEPT !.definitions = <<DefinitionSeed(<<"z", "a", "k", "o", "n">>),
                                           DefinitionSeed(<<"z", "a", "k", "o", "n">>),
                                           DefinitionSeed(<<"s", "o", "d", "b", "a">>)>>],
    [NoOtherParts EXCEPT !.cross_references = <<CrossReferenceSeed(<<"1">>, Some("amended_by")),
                                                CrossReferenceSeed(<<"2">>, Some("amended_by"))>>],
    [NoOtherParts EXCEPT !.cross_references = <<CrossReferenceSeed(<<"1">>, None),
                                                CrossReferenceSeed(<<"1">>, None)>>],
    [NoOtherParts EXCEPT !.cross_references = <<CrossReferenceSeed(<<"1">>, Some("cites"))>>],
    [NoOtherParts EXCEPT !.eu_documents = <<EUDocumentSeed("directive", Some("EU")),
                                            EUDocumentSeed("directive", None)>>,
                         !.eu_references = <<EUReferenceSeed(None, Some(<<"5">>)),
                                             EUReferenceSeed(None, Some(<<"5">>)),
                                             EUReferenceSeed(None, None),
                                             EUReferenceSeed(None, None)>>],
    [NoOtherParts EXCEPT !.eu_documents = <<EUDocumentSeed("directive", None)>>,
                         !.eu_references = <<EUReferenceSeed(Some(1), None)>>],
    [NoOtherParts EXCEPT !.eu_documents = <<EUDocumentSeed("direktiva", None)>>,
                         !.eu_references = <<EUReferenceSeed(None, None)>>],
    [NoOtherParts EXCEPT !.eu_documents = <<EUDocumentSeed("directive", Some("ES"))>>],
    [NoOtherParts EXCEPT !.eu_references =
       <<[EUReferenceSeed(None, None) EXCEPT !.implementation_status = Some("done")],
         [EUReferenceSeed(None, Some(<<"5">>)) EXCEPT !.implementation_status = Some("partial")]>>] }

\* A seed file: its documents, its provisions and versions, its other parts.
SeedFile(documents, provisions, versions, other) ==
  [documents |-> documents, provisions |-> provisions, provision_versions |-> versions,
   eu_documents |-> other.eu_documents, case_law |-> other.case_law,
   preparatory_works |-> other.preparatory_works, definitions |-> other.definitions,
   cross_references |-> other.cross_references, eu_references |-> other.eu_references]

\* Seed files of two documents whose provisions (a:b, c) and (a, b:c) have the
\* same key string.
ColonSeedFiles ==
  LET ab == DocumentSeed(<<"a", ":", "b">>, "statute")
      a == DocumentSeed(<<"a">>, "statute")
      first == ProvisionSeed(<<"a", ":", "b">>, <<"c">>)
      second == ProvisionSeed(<<"a">>, <<"b", ":", "c">>)
  IN { SeedFile(<<ab, a>>, Some(<<first, second>>), Some(<<>>), NoOtherParts),
       SeedFile(<<ab, a>>, Some(<<first>>), None, NoOtherParts),
       SeedFile(<<>>, Some(<<second>>), None, NoOtherParts) }

\* Seed files with provisions and versions of one statute, seed files with
\* entries for the other tables, and the seed files with colons in their ids.
SeedFiles ==
  {SeedFile(d, p, v, NoOtherParts) :
     d \in { <<>>, <<DocumentSeed(ZKP_ID, "statute")>> }, p \in ProvisionLists, v \in VersionLists}
  \cup {SeedFile(d, None, None, o) : d \in DocumentLists, o \in OtherParts}
  \cup ColonSeedFiles

MaxSeeds == 2

SeedCollections == UNION {[1..n -> SeedFiles] : n \in 0..MaxSeeds}

InitBuild ==
  /\ op = "init"
  /\ \E seeds \in SeedCollections : query = [seeds |-> seeds]
  /\ citation = <<>> /\ format = "none" /\ dateArg = None /\ db = EmptyTables
  /\ today = <<>> /\ text = <<>> /\ result = <<>> /\ lookups = <<>>
  /\ lastIndex = NoLastIndex /\ calls = 0

InsertAll ==
  /\ op = "init"
  /\ op' = "insertAll"
  /\ \E built \in {insertAll(query.seeds)} :
       db' = built.tables /\ result' \in built.outcomes
  /\ UNCHANGED <<citation, format, dateArg, today, query, text, lookups, lastIndex, calls>>

NextBuild == InsertAll

SpecBuild == InitBuild /\ [][NextBuild]_vars

\* [valid_from, valid_to) of two rows share a date, null bounds being unbounded.
IntervalsOverlap(r1, r2) ==
  /\ (~IsSome(r1.valid_from) \/ ~IsSome(r2.valid_to) \/ StrLess(Get(r1.valid_from), Get(r2.valid_to)))
  /\ (~IsSome(r2.valid_from) \/ ~IsSome(r1.valid_to) \/ StrLess(Get(r2.valid_from), Get(r1.valid_to)))

\* C25: after the builder has inserted the seed files, no two rows of
\* legal_provision_versions with the same (document_id, provision_ref) have
\* overlapping validity intervals, so at most one version of a provision
\* contains any given date.
C25_VersionsDoNotOverlap ==
  op = "insertAll" =>
    /\ \A r1, r2 \in db.legal_provision_versions :
         (r1.id # r2.id /\ r1.document_id = r2.document_id
            /\ r1.provision_ref = r2.provision_ref) => ~IntervalsOverlap(r1, r2)
    /\ \A d \in { <<"2", "0", "1", "2", "-", "0", "3", "-", "0", "4">>, <<"2", "0", "2", "0", "-", "0", "1", "-", "0", "1">> } :
         Cardinality(VersionsAt(db, [document_id |-> ZKP_ID, provision_ref |-> <<"6">>], d)) <= 1


\* ---------------------------------------------------------------------------
\* The extractors as they run one after another in one process: the regular
\* expressions are module-level objects with the g flag, whose lastIndex
\* outlives a call.
\* ---------------------------------------------------------------------------

\* A plausible slip: one exec where the previous call left the expression,
\* with no reset and no loop; exec leaves lastIndex behind the match, or at 0
\* when it finds nothing.
scanOnce(rx, s, last) ==
  LET m == exec(rx, s, last + 1)
  IN IF m = None THEN [matches |-> <<>>, lastIndex |-> 0]
     ELSE [matches |-> <<Get(m)>>, lastIndex |-> Get(m).end - 1]

\* rx.lastIndex = 0; while ((match = rx.exec(s)) !== null) { ... }: the matches
\* of the loop, and the lastIndex the loop leaves (the exec that finds nothing
\* puts it back to 0).
scan(rx, s, last) == [matches |-> execAll(rx, s, 1), lastIndex |-> 0]

\* The entries of extractCrossReferences from what its three loops found, and
\* the state the loops leave the expressions in.
crossReferencesOf(paragraphs, statutes, selfs, last) ==
  [value |-> KeepFirstByKey(
               [j \in 1..Len(paragraphs.matches) |-> ParagraphArticleCandidate(paragraphs.matches[j])]
               \o [j \in 1..Len(statutes.matches) |-> ArticleWithStatuteCandidate(statutes.matches[j])]
               \o [j \in 1..Len(selfs.matches) |-> ArticleOnlyCandidate(selfs.matches[j])]),
   lastIndex |-> [last EXCEPT !.PARAGRAPH_ARTICLE = paragraphs.lastIndex,
                              !.ARTICLE_WITH_STATUTE = statutes.lastIndex,
                              !.ARTICLE_ONLY = selfs.lastIndex]]

\* extractCrossReferences with the expressions in the state `last`.
extractCrossReferencesIn(t, last) ==
  crossReferencesOf(scan(PARAGRAPH_ARTICLE, t, last.PARAGRAPH_ARTICLE),
                    scan(ARTICLE_WITH_STATUTE, t, last.ARTICLE_WITH_STATUTE),
                    scan(ARTICLE_ONLY, t, last.ARTICLE_ONLY), last)

EUReferencesOf(t, modern, old, last) ==
  [value |-> KeepFirstByKey(
               [j \in 1..Len(modern.matches) |-> EUCandidate(t, modern.matches[j], 4, 5, 3, TRUE)]
               \o [j \in 1..Len(old.matches) |-> EUCandidate(t, old.matches[j], 3, 4, 5, TRUE)]),
   lastIndex |-> [last EXCEPT !.MODERN_PATTERN = modern.lastIndex,
                              !.OLD_STYLE_PATTERN = old.lastIndex]]

\* extractEUReferences with the expressions in the state `last`.
extractEUReferencesIn(t, last) ==
  EUReferencesOf(t, scan(MODERN_PATTERN, t, last.MODERN_PATTERN),
                 scan(OLD_STYLE_PATTERN, t, last.OLD_STYLE_PATTERN), last)

\* The candidates of loop k of extractAmendmentReferences.
amendmentsOfLoop(content, k, ms) ==
  [j \in 1..Len(ms) |-> AmendmentCandidate(content, AmendmentLoops[k].kind, ms[j])]

amendmentReferencesOf(content, s1, s2, s3, s4, last) ==
  [value |-> KeepFirstByKey(amendmentsOfLoop(content, 1, s1.matches)
                              \o amendmentsOfLoop(content, 2, s2.matches)
                              \o amendmentsOfLoop(content, 3, s3.matches)
                              \o amendmentsOfLoop(content, 4, s4.matches)),
   lastIndex |-> [last EXCEPT !.spremenjen = s1.lastIndex, !.razveljavljen = s2.lastIndex,
                              !.crtan = s3.lastIndex, !.dodan = s4.lastIndex]]

\* extractAmendmentReferences with the expressions in the state `last`.
extractAmendmentReferencesIn(content, last) ==
  amendmentReferencesOf(content, scan(SpremenjenPattern, content, last.spremenjen),
                        scan(RazveljavljenPattern, content, last.razveljavljen),
                        scan(CrtanPattern, content, last.crtan),
                        scan(DodanPattern, content, last.dodan), last)

\* The texts of the calls: every fragment of the three extractors on its own,
\* and two texts with several references.
CallTexts ==
  Texts(XrefPieces, 1) \cup Texts(EUPieces, 1) \cup Texts(AmendPieces, 1)
  \cup {XrefPieces[3] \o XrefPieces[7] \o XrefPieces[2], AmendPieces[1] \o AmendPieces[5]}

MaxCalls == 2

InitCalls ==
  /\ op = "init"
  /\ text = <<>>
  /\ citation = <<>> /\ format = "none" /\ dateArg = None /\ db = EmptyStore
  /\ today = <<>> /\ query = <<>> /\ result = <<>> /\ lookups = <<>>
  /\ lastIndex = NoLastIndex /\ calls = 0

\* What a call leaves in the state: its text, its result and the expressions.
Called(t, r) == text' = t /\ result' = r.value /\ lastIndex' = r.lastIndex

CallExtractCrossReferences ==
  /\ calls < MaxCalls
  /\ \E t \in CallTexts :
       Called(t, extractCrossReferencesIn(t, lastIndex))
  /\ op' = "extractCrossReferences" /\ calls' = calls + 1
  /\ UNCHANGED <<citation, format, dateArg, db, today, query, lookups>>

CallExtractEUReferences ==
  /\ calls < MaxCalls
  /\ \E t \in CallTexts :
       Called(t, extractEUReferencesIn(t, lastIndex))
  /\ op' = "extractEUReferences" /\ calls' = calls + 1
  /\ UNCHANGED <<citation, format, dateArg, db, today, query, lookups>>

CallExtractAmendmentReferences ==
  /\ calls < MaxCalls
  /\ \E t \in CallTexts :
       Called(t, extractAmendmentReferencesIn(t, lastIndex))
  /\ op' = "extractAmendmentReferences" /\ calls' = calls + 1
  /\ UNCHANGED <<citation, format, dateArg, db, today, query, lookups>>

NextCalls ==
  \/ CallExtractCrossReferences
  \/ CallExtractEUReferences
  \/ CallExtractAmendmentReferences

SpecCalls == InitCalls /\ [][NextCalls]_vars

\* C26: whatever calls of the three extractors came before, a call returns
\* for its text what a first call in a fresh process returns for it; no
\* lastIndex of a shared regular expression is carried into the next call.
C26_ExtractorsKeepNoState ==
  /\ op = "extractCrossReferences" =>
       result = extractCrossReferencesIn(text, NoLastIndex).value
  /\ op = "extractEUReferences" =>
       result = extractEUReferencesIn(text, NoLastIndex).value
  /\ op = "extractAmendmentReferences" =>
       result = extractAmendmentReferencesIn(text, NoLastIndex).value
  /\ lastIndex = NoLastIndex

\* A second call, on a text with two amendment notes, that finds both.
C26_Witness ==
  /\ calls = 2 /\ op = "extractAmendmentReferences"
  /\ text = AmendPieces[1] \o AmendPieces[5]
  /\ Len(result) = 2


\* ---------------------------------------------------------------------------
\* References of both styles over a range of number pairs.
\* ---------------------------------------------------------------------------
FirstNumbers == << <<"9", "5">>, <<"4", "5">>, <<"1", "2", "1", "5">>, <<"2", "0", "1", "6">>, <<"0", "3">>, <<"6", "7", "9">> >>
SecondNumbers == << <<"4", "6">>, <<"2", "0", "1", "2">>, <<"6", "7", "9">>, <<"1", "2">>,
                   <<"9", "0", "0", "7", "1", "9", "9", "2", "5", "4", "7", "4", "0", "9", "9", "3">> >>

EUNumberTexts ==
  { <<"D", "i", "r", "e", "k", "t", "i", "v", "a", " ">> \o FirstNumbers[i] \o <<"/">> \o SecondNumbers[j] \o <<"/", "E", "S">> :
      i \in 1..Len(FirstNumbers), j \in 1..Len(SecondNumbers) }
  \cup { <<"v", " ", "s", "k", "l", "a", "d", "u", " ", "z", " ", "U", "r", "e", "d", "b", "o", " ", "(", "E", "U", ")", " ", ch_s, "t", ".", " ">> \o FirstNumbers[i] \o <<"/">> \o SecondNumbers[j] :
           i \in 1..Len(FirstNumbers), j \in 1..Len(SecondNumbers) }

InitEUNumbers ==
  /\ op = "init"
  /\ text \in EUNumberTexts
  /\ IdleText

SpecEUNumbers == InitEUNumbers /\ [][NextEU]_vars

\* C27: the number of every entry of extractEUReferences is the one of the
\* two integers of the reference that is not the year, with the value written
\* in the text; only the value given out as year is expanded to four digits.
C27_NumberAsWritten ==
  op = "extractEUReferences" =>
    \A n \in 1..Len(result) : \A p \in EUNumberPairs(text) :
      p.raw = result[n].raw_match =>
        \/ result[n].year = Expanded(p.a) /\ result[n].number = p.b
        \/ result[n].year = Expanded(p.b) /\ result[n].number = p.a


\* ---------------------------------------------------------------------------
\* The currency check (src/tools/check-currency.ts)
\* ---------------------------------------------------------------------------

\* The result for a document that is not in legal_documents.
currencyNotFound(input, asOfDate) ==
  [document_id |-> input.document_id, document_title |-> <<>>, status |-> "not_found",
   is_current |-> FALSE, as_of_date |-> asOfDate, in_force_date |-> None,
   repeal_date |-> None, provision_ref |-> input.provision_ref,
   provision_valid_from |-> None, provision_valid_to |-> None,
   warnings |-> << <<"D", "o", "k", "u", "m", "e", "n", "t", " ">> \o input.document_id \o <<" ", "n", "i", " ", "n", "a", "j", "d", "e", "n", " ", "v", " ", "b", "a", "z", "i", " ", "p", "o", "d", "a", "t", "k", "o", "v">> >>,
   related_case_law |-> <<>>]

\* The four checks on the document row: the warnings they push, in order,
\* and whether isCurrent is still true after them.
documentChecks(docRow, asOfDate, repealDate) ==
  LET repealed == docRow.status = "repealed"
      notYet == docRow.status = "not_yet_in_force"
      early == Truthy(docRow.in_force_date) /\ StrLess(asOfDate, Get(docRow.in_force_date))
      late == Truthy(repealDate) /\ StrLeq(Get(repealDate), asOfDate)
  IN [isCurrent |-> docRow.status \in {"in_force", "amended"} /\ ~early /\ ~late,
      warnings |->
        (IF repealed THEN << <<"\"">> \o docRow.title \o <<"\"", " ", "j", "e", " ", "p", "r", "e", "n", "e", "h", "a", "l", " ", "v", "e", "l", "j", "a", "t", "i", " ", "(", "r", "e", "p", "e", "a", "l", "e", "d", ")">> >> ELSE <<>>)
        \o (IF notYet THEN << <<"\"">> \o docRow.title \o <<"\"", " ", ch_s, "e", " ", "n", "i", " ", "z", "a", ch_c, "e", "l", " ", "v", "e", "l", "j", "a", "t", "i", " ", "(", "n", "o", "t", " ", "y", "e", "t", " ", "i", "n", " ", "f", "o", "r", "c", "e", ")">> >> ELSE <<>>)
        \o (IF early THEN << <<"D", "a", "t", "u", "m", " ">> \o asOfDate \o <<" ", "j", "e", " ", "p", "r", "e", "d", " ", "d", "a", "t", "u", "m", "o", "m", " ", "z", "a", ch_c, "e", "t", "k", "a", " ", "v", "e", "l", "j", "a", "v", "n", "o", "s", "t", "i", " ">>
                               \o Get(docRow.in_force_date) >> ELSE <<>>)
        \o (IF late THEN << <<"D", "a", "t", "u", "m", " ">> \o asOfDate \o <<" ", "j", "e", " ", "p", "o", " ", "d", "a", "t", "u", "m", "u", " ", "p", "r", "e", "n", "e", "h", "a", "n", "j", "a", " ", "v", "e", "l", "j", "a", "v", "n", "o", "s", "t", "i", " ">>
                              \o Get(repealDate) >> ELSE <<>>)]

\* if (provision_ref) { ... }: what the block leaves of isCurrent (FALSE when it
\* assigns false, TRUE when it leaves the variable alone), the validity bounds
\* it found and the warnings it pushes; the store decides between version rows
\* that tie on valid_from.
provisionChecks(store, input, asOfDate) ==
  LET ref == Get(input.provision_ref)
      key == [document_id |-> input.document_id, provision_ref |-> ref]
      rows == VersionsAt(store, key, asOfDate)
      anyVersion == {r \in store.legal_provision_versions :
                       r.document_id = input.document_id /\ r.provision_ref = ref}
  IN IF ~Truthy(input.provision_ref)
     THEN {[isCurrent |-> TRUE, valid_from |-> None, valid_to |-> None, warnings |-> <<>>]}
     ELSE IF rows # {}
     THEN {[isCurrent |-> TRUE, valid_from |-> r.valid_from, valid_to |-> r.valid_to,
            warnings |-> <<>>] : r \in FirstDesc(rows)}
     ELSE IF anyVersion # {}
     THEN {[isCurrent |-> FALSE, valid_from |-> None, valid_to |-> None,
            warnings |-> << <<ch_C, "l", "e", "n", " ">> \o ref \o <<" ", "n", "i", "m", "a", " ", "v", "e", "l", "j", "a", "v", "n", "e", " ", "r", "a", "z", "l", "i", ch_c, "i", "c", "e", " ", "n", "a", " ", "d", "a", "t", "u", "m", " ">> \o asOfDate >>]}
     ELSE IF ~IsSome(getProvisionRow(store, input.document_id, ref))
     THEN {[isCurrent |-> TRUE, valid_from |-> None, valid_to |-> None,
            warnings |-> << <<ch_C, "l", "e", "n", " ">> \o ref \o <<" ", "n", "i", " ", "n", "a", "j", "d", "e", "n", " ", "v", " ", "d", "o", "k", "u", "m", "e", "n", "t", "u", " ">> \o input.document_id >>]}
     ELSE {[isCurrent |-> TRUE, valid_from |-> None, valid_to |-> None, warnings |-> <<>>]}

\* The rows of the case-law query before ORDER BY: one for every row of
\* cross_references to the document (and to the provision, when one is given)
\* whose source is a decision of case_law with a row in legal_documents.
caseLawJoin(store, input) ==
  {[xr |-> xr.id, ecli |-> cl.ecli, court |-> cl.court, decision_date |-> cl.decision_date,
    summary |-> cl.summary, url |-> d.url] :
     <<xr, cl, d>> \in {t \in store.cross_references \X store.case_law \X store.legal_documents :
                          /\ t[1].source_document_id = t[2].document_id
                          /\ t[2].document_id = t[3].id
                          /\ t[1].target_document_id = input.document_id
                          /\ Truthy(input.provision_ref) =>
                               t[1].target_provision_ref = input.provision_ref}}

RelatedCaseLaw(row) ==
  [ecli |-> row.ecli, court |-> row.court, decision_date |-> row.decision_date,
   summary |-> row.summary, url |-> row.url]

\* ORDER BY cl.decision_date DESC LIMIT n: the arrays the query may return, the
\* store deciding between rows that tie on decision_date.
RECURSIVE OrderedByDate(_, _)
OrderedByDate(rows, n) ==
  IF rows = {} \/ n = 0 THEN {<<>>}
  ELSE UNION {{<<RelatedCaseLaw(r)>> \o rest : rest \in OrderedByDate(rows \ {r}, n - 1)} :
                r \in {x \in rows : \A o \in rows :
                                      /\ ~SqlLess(x.decision_date, o.decision_date)
                                      /\ (RelatedCaseLaw(o) = RelatedCaseLaw(x) => x.xr <= o.xr)}}

\* try { relatedCaseLaw.push(...db.prepare(caseLawSql).all(...caseLawParams)) }
\* catch {}: prepare throws only on a database without these tables, and the
\* tables of the schema are always there.
relatedCaseLaw(store, input) == OrderedByDate(caseLawJoin(store, input), 5)

\* The result for the document row docRow, p being what the provision block
\* found, checks what the document checks found and caseLaw the array of the
\* case-law query.
currencyResult(docRow, input, asOfDate, repealDate, checks, p, caseLaw) ==
  [document_id |-> docRow.id, document_title |-> docRow.title, status |-> docRow.status,
   is_current |-> checks.isCurrent /\ p.isCurrent,
   as_of_date |-> asOfDate, in_force_date |-> docRow.in_force_date,
   repeal_date |-> repealDate, provision_ref |-> input.provision_ref,
   provision_valid_from |-> p.valid_from, provision_valid_to |-> p.valid_to,
   warnings |-> checks.warnings \o p.warnings,
   related_case_law |-> caseLaw]

\* The body of checkCurrency for a document row that was found, repealDate
\* being extractRepealDateFromDescription(docRow.description) ?? null.
checkCurrencyOfRow(store, input, asOfDate, docRow, repealDate) ==
  {Returned(currencyResult(docRow, input, asOfDate, repealDate,
                           documentChecks(docRow, asOfDate, repealDate), p, caseLaw)) :
     p \in provisionChecks(store, input, asOfDate),
     caseLaw \in relatedCaseLaw(store, input)}

\* The body of checkCurrency once asOfDate is known.
checkCurrencyAt(store, input, asOfDate, doc) ==
  IF ~IsSome(doc) THEN {Returned(currencyNotFound(input, asOfDate))}
  ELSE checkCurrencyOfRow(store, input, asOfDate, Get(doc),
                          extractRepealDateFromDescription(Get(doc).description))

\* The body of checkCurrency after normalizeAsOfDate(input.as_of_date).
checkCurrencyNormalized(store, input, normalized, todayStr) ==
  IF normalized.kind = "throw" THEN {normalized}
  ELSE checkCurrencyAt(store, input,
                       IF IsSome(normalized.value) THEN Get(normalized.value) ELSE todayStr,
                       getDocument(store, input.document_id))

\* normalizeAsOfDate(input.as_of_date) ?? new Date().toISOString().slice(0, 10)
checkCurrency(store, input, todayStr) ==
  checkCurrencyNormalized(store, input, normalizeAsOfDate(input.as_of_date), todayStr)

\* Document rows of every status, with and without a date of entry into force
\* and a note of repeal.
CurrencyDocuments ==
  {[id |-> ZKP_ID, title |-> <<"Z", "a", "k", "o", "n", " ", "o", " ", "k", "a", "z", "e", "n", "s", "k", "e", "m", " ", "p", "o", "s", "t", "o", "p", "k", "u">>, status |-> st,
    in_force_date |-> f, description |-> d, url |-> None] :
     st \in DocumentStatus, f \in {None, Some(<<"2", "0", "1", "5", "-", "0", "6", "-", "0", "1">>)},
     d \in {None, Some(<<"P", "r", "e", "n", "e", "h", "a", "l", " ", "v", "e", "l", "j", "a", "t", "i", " ", "0", "1", ".", "0", "1", ".", "2", "0", "1", "8">>)}}

CurrencyVersions ==
  {[document_id |-> ZKP_ID, provision_ref |-> <<"6">>, chapter |-> None, section |-> None,
    article |-> <<"6">>, title |-> None, content |-> <<"b", "e", "s", "e", "d", "i", "l", "o">>,
    valid_from |-> i[1], valid_to |-> i[2]] : i \in SeedIntervals}

MaxCurrencyVersions == 1

\* Decisions of case_law with their rows of legal_documents, and rows of
\* cross_references that cite the statute or its provision 6.
SECOND_ECLI == <<"E", "C", "L", "I", ":", "S", "I", ":", "V", "S", "R", "S", ":", "2", "0", "2", "1", ":", "7">>
THIRD_ECLI == <<"E", "C", "L", "I", ":", "S", "I", ":", "V", "S", "L", ":", "2", "0", "1", "9", ":", "4", "5">>
Decision(id, date) ==
  [document_id |-> id, ecli |-> id, court |-> <<"V", "S", "R", "S">>, decision_date |-> date,
   summary |-> None]
DecisionDocument(id, url) ==
  [id |-> id, title |-> <<"S", "o", "d", "b", "a", " ", "V", "S", "R", "S">>, status |-> "in_force",
   in_force_date |-> None, description |-> None, url |-> url]
Citing(id, source, ref) ==
  [id |-> id, source_document_id |-> source, source_provision_ref |-> None,
   target_document_id |-> ZKP_ID, target_provision_ref |-> ref, ref_type |-> "references"]

\* No case law; three decisions, one of them without a date, cited next to a
\* citation by a statute, one citation being of the statute as a whole; and
\* six citations by three decisions, two of them of the same day.
CaseLawParts ==
  { [documents |-> {}, case_law |-> {}, cross_references |-> {}],
    [documents |-> {DecisionDocument(ECLI_ID, Some(<<"h", "t", "t", "p", "s", ":", "/", "/", "s", "o", "d", "n", "a", "p", "r", "a", "k", "s", "a", ".", "s", "i", "/", "1", "2", "3">>)),
                    DecisionDocument(SECOND_ECLI, None), DecisionDocument(THIRD_ECLI, None),
                    [DecisionDocument(AMENDING_ID, None) EXCEPT !.title = <<"Z", "K", "P", "-", "A">>]},
     case_law |-> {Decision(ECLI_ID, None), Decision(SECOND_ECLI, Some(<<"2", "0", "2", "1", "-", "0", "3", "-", "0", "1">>)),
                   Decision(THIRD_ECLI, Some(<<"2", "0", "1", "9", "-", "1", "0", "-", "1", "0">>))},
     cross_references |-> {Citing(1, ECLI_ID, Some(<<"6">>)), Citing(2, SECOND_ECLI, None),
                           Citing(3, AMENDING_ID, Some(<<"6">>)),
                           Citing(4, THIRD_ECLI, Some(<<"6">>)),
                           Citing(5, SECOND_ECLI, Some(<<"6">>))}],
    [documents |-> {DecisionDocument(ECLI_ID, None), DecisionDocument(SECOND_ECLI, None),
                    DecisionDocument(THIRD_ECLI, None)},
     case_law |-> {Decision(ECLI_ID, Some(<<"2", "0", "2", "1", "-", "0", "3", "-", "0", "1">>)), Decision(SECOND_ECLI, Some(<<"2", "0", "1", "9", "-", "1", "0", "-", "1", "0">>)),
                   Decision(THIRD_ECLI, Some(<<"2", "0", "1", "9", "-", "1", "0", "-", "1", "0">>))},
     cross_references |-> {Citing(1, SECOND_ECLI, Some(<<"6">>)), Citing(2, ECLI_ID, Some(<<"6">>)),
                           Citing(3, THIRD_ECLI, Some(<<"6">>)), Citing(4, ECLI_ID, Some(<<"6">>)),
                           Citing(5, ECLI_ID, Some(<<"6">>)), Citing(6, ECLI_ID, Some(<<"6">>))}] }

CurrencyStores ==
  {[EmptyStore EXCEPT !.legal_documents = {d} \cup law.documents, !.legal_provisions = provs,
                      !.legal_provision_versions = versions,
                      !.cross_references = law.cross_references,
                      !.case_law = law.case_law] :
     d \in CurrencyDocuments,
     provs \in SUBSET {[document_id |-> ZKP_ID, provision_ref |-> <<"6">>]},
     versions \in SubsetsUpTo(CurrencyVersions, MaxCurrencyVersions),
     law \in CaseLawParts}

InitCurrency ==
  /\ op = "init"
  /\ db \in CurrencyStores
  /\ today = <<"2", "0", "2", "4", "-", "0", "1", "-", "0", "1">>
  /\ query \in [document_id : {ZKP_ID, UNKNOWN_ID},
                provision_ref : {None, Some(<<"6">>), Some(<<"9", "9">>)},
                as_of_date : {None, Some(<<"2", "0", "1", "2", "-", "0", "3", "-", "0", "4">>), Some(<<"2", "0", "1", "6", "-", "0", "2", "-", "2", "9">>), Some(<<"2", "0", "2", "1", "-", "0", "2", "-", "3", "0">>)}]
  /\ IdleResolve

CheckCurrency ==
  /\ op = "init"
  /\ op' = "checkCurrency"
  /\ result' \in checkCurrency(db, query, today)
  /\ UNCHANGED <<citation, format, dateArg, db, today, query, text, lookups, lastIndex, calls>>

NextCurrency == CheckCurrency

SpecCurrency == InitCurrency /\ [][NextCurrency]_vars

\* C28: is_current is true only if the document is in_force or amended, the
\* date is not before in_force_date and is before the repeal date of the
\* description, and the provision, when one is given, has a version that
\* contains the date or, having no version rows at all, is in
\* legal_provisions; a provision that is not found is never reported current.
C28_CurrentOnlyIfProvisionFound ==
  (op = "checkCurrency" /\ result.kind = "return" /\ result.value.is_current) =>
    LET r == result.value
        doc == Get(getDocument(db, query.document_id))
        repealDate == extractRepealDateFromDescription(doc.description)
        ref == Get(query.provision_ref)
        versions == {v \in db.legal_provision_versions :
                       v.document_id = query.document_id /\ v.provision_ref = ref}
    IN /\ IsSome(getDocument(db, query.document_id))
       /\ doc.status \in {"in_force", "amended"}
       /\ IsSome(doc.in_force_date) => ~StrLess(r.as_of_date, Get(doc.in_force_date))
       /\ IsSome(repealDate) => StrLess(r.as_of_date, Get(repealDate))
       /\ IsSome(query.provision_ref) =>
            \/ VersionsAt(db, [document_id |-> query.document_id, provision_ref |-> ref],
                          r.as_of_date) # {}
            \/ /\ versions = {}
               /\ [document_id |-> query.document_id, provision_ref |-> ref] \in db.legal_provisions


\* ---------------------------------------------------------------------------
\* The content parser of the ingestion scripts (parseContentBlocks)
\* ---------------------------------------------------------------------------

\* s.replace(rx, rep) for a pattern with the g flag that matches no empty text.
RECURSIVE replaceFrom(_, _, _, _)
replaceFrom(rx, s, rep, from) ==
  LET m == exec(rx, s, from)
  IN IF m = None THEN SubSeq(s, from, Len(s))
     ELSE SubSeq(s, from, Get(m).index - 1) \o rep \o replaceFrom(rx, s, rep, Get(m).end)

replaceAll(rx, s, rep) == replaceFrom(rx, s, rep, 1)

\* s.replace(/\u00a0/g, ' ')
spacesForNbsp(s) == [j \in 1..Len(s) |-> IF s[j] = nbsp THEN " " ELSE s[j]]

\* html.replace(/<br\s*\/?>/gi, '\n').replace(/<[^>]+>/g, '').replace(/\u00a0/g, ' ').trim()
stripHtml(html) ==
  trim(spacesForNbsp(
         replaceAll(RegExp(Cat(<<Chr("<"), Plus(NotSet({">"})), Chr(">")>>), 0, FALSE),
                    replaceAll(RegExp(Cat(<<Lit(<<"<", "b", "r">>), Star(WS), Opt(Chr("/")),
                                            Chr(">")>>), 0, TRUE),
                               html, <<"\n">>),
                    <<>>)))

\* /^(\d+(?:\.[a-z])?)[\.\s]*\u010dlen/i
ArticleNumberHeading ==
  RegExp(Cat(<<BOL, Grp(1, Cat(<<Plus(D), Opt(Cat(<<Chr("."), Set(LowerLetter)>>))>>)),
               Star(Set({"."} \cup WhiteSpace)), Lit(<<ch_c, "l", "e", "n">>)>>), 1, TRUE)

\* currentContent.join('\n')
RECURSIVE joinLines(_)
joinLines(lines) ==
  IF lines = <<>> THEN <<>>
  ELSE IF Len(lines) = 1 THEN lines[1]
  ELSE lines[1] \o <<"\n">> \o joinLines(Tail(lines))

\* The variables of parseContentBlocks before the first block.
ParserStart ==
  [provisions |-> <<>>, currentChapter |-> None, currentSection |-> None,
   currentArticleTitle |-> None, currentArticleNum |-> None, currentContent |-> <<>>,
   pendingTitle |-> None]

\* flushArticle()
flushArticle(p, documentId) ==
  [p EXCEPT !.provisions =
              IF Truthy(p.currentArticleNum) /\ p.currentContent # <<>>
              THEN Append(@, [document_id |-> documentId,
                              provision_ref |-> Get(p.currentArticleNum),
                              chapter |-> p.currentChapter, section |-> p.currentSection,
                              article |-> Get(p.currentArticleNum),
                              title |-> p.currentArticleTitle,
                              content |-> trim(joinLines(p.currentContent))])
              ELSE @,
            !.currentContent = <<>>]

SkippedStructures == {"naslov", "opozorilo", "npb", "napaka"}

\* text.replace(/\n/g, ' ')
spacesForBreaks(s) == [j \in 1..Len(s) |-> IF s[j] = "\n" THEN " " ELSE s[j]]

\* The switch of the loop body for a block with the text txt, articleNumMatch
\* being the match of the article heading pattern on it.
parseStripped(p, struktura, txt, articleNumMatch, documentId) ==
  IF txt = <<>> THEN p
  ELSE IF struktura \in {"del", "poglavje"}
  THEN [flushArticle(p, documentId) EXCEPT
          !.currentChapter = Some(trim(spacesForBreaks(txt))),
          !.currentSection = None, !.pendingTitle = None]
  ELSE IF struktura = "oddelek"
  THEN [flushArticle(p, documentId) EXCEPT !.currentSection = Some(txt), !.pendingTitle = None]
  ELSE IF struktura = "clen"
  THEN IF IsSome(articleNumMatch)
       THEN [flushArticle(p, documentId) EXCEPT
               !.currentArticleNum = Get(articleNumMatch).caps[1],
               !.currentArticleTitle = p.pendingTitle, !.pendingTitle = None]
       ELSE [p EXCEPT !.pendingTitle = Some(txt)]
  ELSE IF struktura \in SkippedStructures THEN p
  ELSE IF Truthy(p.currentArticleNum)
  THEN [p EXCEPT !.currentContent = Append(@, txt)]
  ELSE p

parseText(p, struktura, txt, documentId) ==
  parseStripped(p, struktura, txt, match(ArticleNumberHeading, txt), documentId)

\* One iteration of for (const block of blocks).
parseBlock(p, block, documentId) ==
  parseText(p, block.struktura, stripHtml(block.vsebina), documentId)

RECURSIVE parseBlocksFrom(_, _, _)
parseBlocksFrom(p, blocks, documentId) ==
  IF blocks = <<>> THEN p
  ELSE parseBlocksFrom(parseBlock(p, Head(blocks), documentId), Tail(blocks), documentId)

parseContentBlocks(blocks, documentId) ==
  flushArticle(parseBlocksFrom(ParserStart, blocks, documentId), documentId).provisions

\* Content blocks as the register delivers them.
ContentBlocks ==
  { [struktura |-> "clen", vsebina |-> <<"1", ".", " ", ch_c, "l", "e", "n">>],
    [struktura |-> "clen", vsebina |-> <<"<", "b", ">", "3", ".", "a", " ", ch_c, "l", "e", "n", "<", "/", "b", ">">>],
    [struktura |-> "clen", vsebina |-> <<"(", "s", "p", "l", "o", ch_s, "n", "a", " ", "d", "o", "l", "o", ch_c, "b", "a", ")">>],
    [struktura |-> "odstavek", vsebina |-> <<"(", "1", ")", " ", "B", "e", "s", "e", "d", "i", "l", "o", "<", "b", "r", " ", "/", ">", "o", "d", "s", "t", "a", "v", "k", "a", ".">>],
    [struktura |-> "alinea", vsebina |-> <<"-", " ", "a", "l", "i", "n", "e", "a">>],
    [struktura |-> "odstavek", vsebina |-> <<" ", nbsp>>],
    [struktura |-> "poglavje", vsebina |-> <<"I", "I", ".", " ", "p", "o", "g", "l", "a", "v", "j", "e", "<", "b", "r", " ", "/", ">", " ", "K", "A", "Z", "N", "I">>],
    [struktura |-> "oddelek", vsebina |-> <<"1", ".", " ", "S", "p", "l", "o", ch_s, "n", "o">>],
    [struktura |-> "naslov", vsebina |-> <<"Z", "A", "K", "O", "N">>] }

MaxBlocks == 4

InitParse ==
  /\ op = "init"
  /\ \E blocks \in UNION {[1..n -> ContentBlocks] : n \in 0..MaxBlocks} :
       query = [blocks |-> blocks, documentId |-> ZKP_ID]
  /\ citation = <<>> /\ format = "none" /\ dateArg = None /\ db = EmptyStore
  /\ today = <<>> /\ text = <<>> /\ result = <<>> /\ lookups = <<>>
  /\ lastIndex = NoLastIndex /\ calls = 0

ParseContentBlocks ==
  /\ op = "init"
  /\ op' = "parseContentBlocks"
  /\ result' = parseContentBlocks(query.blocks, query.documentId)
  /\ UNCHANGED <<citation, format, dateArg, db, today, query, text, lookups, lastIndex, calls>>

NextParse == ParseContentBlocks

SpecParse == InitParse /\ [][NextParse]_vars

\* The text of block i without its markup, and the number of the article
\* heading block i is (None when it is no article heading).
BlockText(i) == stripHtml(query.blocks[i].vsebina)

HeadingNumber(i) ==
  IF query.blocks[i].struktura = "clen" /\ IsSome(match(ArticleNumberHeading, BlockText(i)))
  THEN Get(match(ArticleNumberHeading, BlockText(i))).caps[1]
  ELSE None

\* Block i closes the article before it: an article heading, or a heading of
\* a part, chapter or section.
ClosesArticle(i) ==
  /\ BlockText(i) # <<>>
  /\ \/ IsSome(HeadingNumber(i))
     \/ query.blocks[i].struktura \in {"del", "poglavje", "oddelek"}

\* The text blocks that belong to the article heading i: those after it and
\* before the next block that closes the article.
BodyOf(i) ==
  LET stops == {j \in (i + 1)..Len(query.blocks) : ClosesArticle(j)}
      last == IF stops = {} THEN Len(query.blocks)
              ELSE (CHOOSE j \in stops : \A h \in stops : j <= h) - 1
      body == SelectSeq([j \in 1..(last - i) |-> i + j],
                        LAMBDA j : /\ query.blocks[j].struktura \notin {"clen"} \cup SkippedStructures
                                   /\ BlockText(j) # <<>>)
  IN [j \in 1..Len(body) |-> BlockText(body[j])]

\* C29: parseContentBlocks emits at most one provision for every article
\* heading, never with empty content, and the content of a provision is the
\* text between its heading and the next article, chapter or section heading:
\* text after a chapter or section heading is not given to the article before.
C29_OneProvisionPerHeading ==
  op = "parseContentBlocks" =>
    LET headings == {i \in 1..Len(query.blocks) : IsSome(HeadingNumber(i))}
    IN /\ Len(result) <= Cardinality(headings)
       /\ \A k \in 1..Len(result) :
            /\ result[k].content # <<>>
            /\ \E i \in headings :
                 /\ HeadingNumber(i) = Some(result[k].provision_ref)
                 /\ result[k].content = trim(joinLines(BodyOf(i)))


\* ---------------------------------------------------------------------------
\* Statute abbreviations of the cross-reference extractor and the script that
\* turns references into cross_references rows.
\* ---------------------------------------------------------------------------

\* STATUTE_ABBREVIATIONS, in the order of the object literal.
STATUTE_ABBREVIATIONS ==
  << << <<"Z", "K", "P">>, <<"z", "a", "k", "o", "n", "-", "o", "-", "k", "a", "z", "e", "n", "s", "k", "e", "m", "-", "p", "o", "s", "t", "o", "p", "k", "u">> >>,
     << <<"K", "Z", "-", "1">>, <<"k", "a", "z", "e", "n", "s", "k", "i", "-", "z", "a", "k", "o", "n", "i", "k">> >>,
     << <<"O", "Z">>, <<"o", "b", "l", "i", "g", "a", "c", "i", "j", "s", "k", "i", "-", "z", "a", "k", "o", "n", "i", "k">> >>,
     << <<"Z", "P", "P">>, <<"z", "a", "k", "o", "n", "-", "o", "-", "p", "r", "a", "v", "d", "n", "e", "m", "-", "p", "o", "s", "t", "o", "p", "k", "u">> >>,
     << <<"Z", "U", "P">>, <<"z", "a", "k", "o", "n", "-", "o", "-", "s", "p", "l", "o", "s", "n", "e", "m", "-", "u", "p", "r", "a", "v", "n", "e", "m", "-", "p", "o", "s", "t", "o", "p", "k", "u">> >>,
     << <<"Z", "D", "R", "-", "1">>, <<"z", "a", "k", "o", "n", "-", "o", "-", "d", "e", "l", "o", "v", "n", "i", "h", "-", "r", "a", "z", "m", "e", "r", "j", "i", "h">> >>,
     << <<"Z", "P", "I", "Z", "-", "2">>, <<"z", "a", "k", "o", "n", "-", "o", "-", "p", "o", "k", "o", "j", "n", "i", "n", "s", "k", "e", "m", "-", "i", "n", "-", "i", "n", "v", "a", "l", "i", "d", "s", "k", "e", "m", "-", "z", "a", "v", "a", "r", "o", "v", "a", "n", "j", "u">> >>,
     << <<"Z", "G", "D", "-", "1">>, <<"z", "a", "k", "o", "n", "-", "o", "-", "g", "o", "s", "p", "o", "d", "a", "r", "s", "k", "i", "h", "-", "d", "r", "u", "z", "b", "a", "h">> >>,
     << <<"Z", "L", "S">>, <<"z", "a", "k", "o", "n", "-", "o", "-", "l", "o", "k", "a", "l", "n", "i", "-", "s", "a", "m", "o", "u", "p", "r", "a", "v", "i">> >>,
     << <<"Z", "J", "N", "-", "3">>, <<"z", "a", "k", "o", "n", "-", "o", "-", "j", "a", "v", "n", "e", "m", "-", "n", "a", "r", "o", "c", "a", "n", "j", "u">> >>,
     << <<"Z", "V", "O", "P", "-", "2">>, <<"z", "a", "k", "o", "n", "-", "o", "-", "v", "a", "r", "s", "t", "v", "u", "-", "o", "s", "e", "b", "n", "i", "h", "-", "p", "o", "d", "a", "t", "k", "o", "v">> >>,
     << <<"Z", "U", "S", "-", "1">>, <<"z", "a", "k", "o", "n", "-", "o", "-", "u", "p", "r", "a", "v", "n", "e", "m", "-", "s", "p", "o", "r", "u">> >>,
     << <<"Z", "D", "a", "v", "P", "-", "2">>, <<"z", "a", "k", "o", "n", "-", "o", "-", "d", "a", "v", "c", "n", "e", "m", "-", "p", "o", "s", "t", "o", "p", "k", "u">> >>,
     << <<"Z", "D", "D", "V", "-", "1">>, <<"z", "a", "k", "o", "n", "-", "o", "-", "d", "a", "v", "k", "u", "-", "n", "a", "-", "d", "o", "d", "a", "n", "o", "-", "v", "r", "e", "d", "n", "o", "s", "t">> >>,
     << <<"S", "P", "Z">>, <<"s", "t", "v", "a", "r", "n", "o", "p", "r", "a", "v", "n", "i", "-", "z", "a", "k", "o", "n", "i", "k">> >>,
     << <<"Z", "Z", "K", "-", "1">>, <<"z", "a", "k", "o", "n", "-", "o", "-", "z", "e", "m", "l", "j", "i", "s", "k", "i", "-", "k", "n", "j", "i", "g", "i">> >>,
     << <<"U", "s", "t", "a", "v", "a">>, <<"u", "s", "t", "a", "v", "a", "-", "r", "e", "p", "u", "b", "l", "i", "k", "e", "-", "s", "l", "o", "v", "e", "n", "i", "j", "e">> >> >>

\* Property names every object literal inherits from Object.prototype, in the
\* order of Object.getOwnPropertyNames(Object.prototype), and what reading
\* them gives, written as Node prints it: a function, or for __proto__ the
\* prototype object itself.
InheritedProperties ==
  << << <<"c", "o", "n", "s", "t", "r", "u", "c", "t", "o", "r">>, <<"[", "F", "u", "n", "c", "t", "i", "o", "n", ":", " ", "O", "b", "j", "e", "c", "t", "]">> >>,
     << <<"_", "_", "d", "e", "f", "i", "n", "e", "G", "e", "t", "t", "e", "r", "_", "_">>, <<"[", "F", "u", "n", "c", "t", "i", "o", "n", ":", " ", "_", "_", "d", "e", "f", "i", "n", "e", "G", "e", "t", "t", "e", "r", "_", "_", "]">> >>,
     << <<"_", "_", "d", "e", "f", "i", "n", "e", "S", "e", "t", "t", "e", "r", "_", "_">>, <<"[", "F", "u", "n", "c", "t", "i", "o", "n", ":", " ", "_", "_", "d", "e", "f", "i", "n", "e", "S", "e", "t", "t", "e", "r", "_", "_", "]">> >>,
     << <<"h", "a", "s", "O", "w", "n", "P", "r", "o", "p", "e", "r", "t", "y">>, <<"[", "F", "u", "n", "c", "t", "i", "o", "n", ":", " ", "h", "a", "s", "O", "w", "n", "P", "r", "o", "p", "e", "r", "t", "y", "]">> >>,
     << <<"_", "_", "l", "o", "o", "k", "u", "p", "G", "e", "t", "t", "e", "r", "_", "_">>, <<"[", "F", "u", "n", "c", "t", "i", "o", "n", ":", " ", "_", "_", "l", "o", "o", "k", "u", "p", "G", "e", "t", "t", "e", "r", "_", "_", "]">> >>,
     << <<"_", "_", "l", "o", "o", "k", "u", "p", "S", "e", "t", "t", "e", "r", "_", "_">>, <<"[", "F", "u", "n", "c", "t", "i", "o", "n", ":", " ", "_", "_", "l", "o", "o", "k", "u", "p", "S", "e", "t", "t", "e", "r", "_", "_", "]">> >>,
     << <<"i", "s", "P", "r", "o", "t", "o", "t", "y", "p", "e", "O", "f">>, <<"[", "F", "u", "n", "c", "t", "i", "o", "n", ":", " ", "i", "s", "P", "r", "o", "t", "o", "t", "y", "p", "e", "O", "f", "]">> >>,
     << <<"p", "r", "o", "p", "e", "r", "t", "y", "I", "s", "E", "n", "u", "m", "e", "r", "a", "b", "l", "e">>, <<"[", "F", "u", "n", "c", "t", "i", "o", "n", ":", " ", "p", "r", "o", "p", "e", "r", "t", "y", "I", "s", "E", "n", "u", "m", "e", "r", "a", "b", "l", "e", "]">> >>,
     << <<"t", "o", "S", "t", "r", "i", "n", "g">>, <<"[", "F", "u", "n", "c", "t", "i", "o", "n", ":", " ", "t", "o", "S", "t", "r", "i", "n", "g", "]">> >>,
     << <<"v", "a", "l", "u", "e", "O", "f">>, <<"[", "F", "u", "n", "c", "t", "i", "o", "n", ":", " ", "v", "a", "l", "u", "e", "O", "f", "]">> >>,
     << <<"_", "_", "p", "r", "o", "t", "o", "_", "_">>, <<"[", "O", "b", "j", "e", "c", "t", ":", " ", "n", "u", "l", "l", " ", "p", "r", "o", "t", "o", "t", "y", "p", "e", "]", " ", "{", "}">> >>,
     << <<"t", "o", "L", "o", "c", "a", "l", "e", "S", "t", "r", "i", "n", "g">>, <<"[", "F", "u", "n", "c", "t", "i", "o", "n", ":", " ", "t", "o", "L", "o", "c", "a", "l", "e", "S", "t", "r", "i", "n", "g", "]">> >> >>

\* STATUTE_ABBREVIATIONS[abbreviation]
resolveStatuteAbbreviation(abbreviation) ==
  IF IsSome(Lookup(STATUTE_ABBREVIATIONS, abbreviation))
  THEN Lookup(STATUTE_ABBREVIATIONS, abbreviation)
  ELSE Lookup(InheritedProperties, abbreviation)

\* if (ref.target_statute) { ... if (targetDocId && knownDocIds.has(targetDocId)
\* && targetDocId !== documentId)
keepsReference(ref, documentId, knownDocIds) ==
  /\ Truthy(ref.target_statute)
  /\ Truthy(resolveStatuteAbbreviation(Get(ref.target_statute)))
  /\ Get(resolveStatuteAbbreviation(Get(ref.target_statute))) \in knownDocIds
  /\ Get(resolveStatuteAbbreviation(Get(ref.target_statute))) # documentId

\* xrefs.push({...}) for the references that pass the test.
crossRefRows(kept, prov, documentId) ==
  [j \in 1..Len(kept) |->
     [source_document_id |-> documentId, source_provision_ref |-> prov.provision_ref,
      target_document_id |-> Get(resolveStatuteAbbreviation(Get(kept[j].target_statute))),
      target_provision_ref |-> kept[j].target_article, ref_type |-> "references"]]

\* The body of for (const prov of seed.provisions): the rows pushed to xrefs.
provisionCrossRefs(prov, documentId, knownDocIds) ==
  crossRefRows(SelectSeq(extractCrossReferences(prov.content),
                         LAMBDA ref : keepsReference(ref, documentId, knownDocIds)),
               prov, documentId)

StatuteIds == {STATUTE_ABBREVIATIONS[j][2] : j \in 1..Len(STATUTE_ABBREVIATIONS)}
StatuteKeys == {STATUTE_ABBREVIATIONS[j][1] : j \in 1..Len(STATUTE_ABBREVIATIONS)}

\* Abbreviations that are no keys: other letter case, other statutes, a key
\* with something added, and names of inherited properties.
OtherAbbreviations ==
  << <<"z", "k", "p">>, <<"Z", "k", "p">>, <<"K", "Z">>, <<"Z", "K", "P", "-", "1">>, <<"Z", "I", "Z">>, <<"U", "S", "T", "A", "V", "A">>, <<"c", "o", "n", "s", "t", "r", "u", "c", "t", "o", "r">>, <<"Z", "D", "A", "V", "P", "-", "2">>,
     <<"h", "a", "s", "O", "w", "n", "P", "r", "o", "p", "e", "r", "t", "y">>, <<"v", "a", "l", "u", "e", "O", "f">>, <<"_", "_", "p", "r", "o", "t", "o", "_", "_">>, <<"t", "o", "S", "t", "r", "i", "n", "g">> >>

Abbreviations == StatuteKeys \cup {OtherAbbreviations[j] : j \in 1..Len(OtherAbbreviations)}

InitAbbreviation ==
  /\ op = "init"
  /\ \E a \in Abbreviations, n \in { <<"5">>, <<"4", "2">> }, known \in { {}, StatuteIds } :
       /\ query = [abbreviation |-> a, documentId |-> <<"k", "a", "z", "e", "n", "s", "k", "i", "-", "z", "a", "k", "o", "n", "i", "k">>,
                   provision_ref |-> <<"7">>, knownDocIds |-> known]
       /\ text = n \o <<".", " ", ch_c, "l", "e", "n", " ">> \o a
  /\ citation = <<>> /\ format = "none" /\ dateArg = None /\ db = EmptyStore
  /\ today = <<>> /\ result = <<>> /\ lookups = <<>>
  /\ lastIndex = NoLastIndex /\ calls = 0

ResolveStatuteAbbreviation ==
  /\ op = "init"
  /\ op' = "resolveStatuteAbbreviation"
  /\ result' = resolveStatuteAbbreviation(query.abbreviation)
  /\ UNCHANGED <<citation, format, dateArg, db, today, query, text, lookups, lastIndex, calls>>

PopulateCrossReferences ==
  /\ op = "init"
  /\ op' = "populateCrossReferences"
  /\ result' = provisionCrossRefs([provision_ref |-> query.provision_ref, content |-> text],
                                  query.documentId, query.knownDocIds)
  /\ UNCHANGED <<citation, format, dateArg, db, today, query, text, lookups, lastIndex, calls>>

NextAbbreviation ==
  \/ ExtractCrossReferences
  \/ ResolveStatuteAbbreviation
  \/ PopulateCrossReferences

SpecAbbreviation == InitAbbreviation /\ [][NextAbbreviation]_vars

\* C30: for every key A of the abbreviation table, extractCrossReferences of
\* '<n>. \u010dlen A' has an entry whose target_statute is A, which
\* resolveStatuteAbbreviation maps to the identifier of A; for every string
\* that is no key resolveStatuteAbbreviation gives undefined, and the script
\* adds no row for it.
C30_EveryKeyReachable ==
  /\ (op = "extractCrossReferences" /\ query.abbreviation \in StatuteKeys) =>
       \E k \in 1..Len(result) :
         /\ result[k].target_statute = Some(query.abbreviation)
         /\ resolveStatuteAbbreviation(Get(result[k].target_statute))
              = Lookup(STATUTE_ABBREVIATIONS, query.abbreviation)
  /\ (op = "resolveStatuteAbbreviation" /\ query.abbreviation \notin StatuteKeys) =>
       result = None
  /\ (op = "populateCrossReferences" /\ query.abbreviation \notin StatuteKeys) =>
       \A k \in 1..Len(result) :
         \E e \in 1..Len(extractCrossReferences(text)) :
           LET token == extractCrossReferences(text)[e].target_statute
           IN /\ IsSome(token) /\ Get(token) \in StatuteKeys
              /\ Some(result[k].target_document_id) = Lookup(STATUTE_ABBREVIATIONS, Get(token))
====
